---------------------------- MODULE Spec2Model ----------------------------
(***************************************************************************)
(* Verification model of the RolePlayAI uploader: the manifest utilities,  *)
(* the delta detector, the R2 client operations (uploadChunk,              *)
(* uploadManifest, verifyManifest, promoteVersion) and the UploadManager   *)
(* session with its cooperative pause/resume.                              *)
(*                                                                         *)
(* Asynchronous JavaScript is modelled at the granularity of its           *)
(* suspension points: the code between two awaits is one atomic step, and  *)
(* the synchronous methods pause() and resume() are atomic steps that may  *)
(* run between any two steps of the upload loop.                           *)
(***************************************************************************)
EXTENDS Integers, Sequences, FiniteSets, TLC

(***************************************************************************)
(* Values.                                                                 *)
(***************************************************************************)

\* A chunk hash is a hex string, modelled as its sequence of characters.
H1 == <<"a", "b", "1">>
H2 == <<"a", "b", "2">>
H3 == <<"c", "d", "3">>
H4 == <<"c", "d", "4">>
Hashes == {H1, H2, H3, H4}

\* Absent JSON values: a missing string/array is the empty sequence or
\* string, a missing number is NoNum.
NoStr == ""
NoHash == <<>>
NoUrl == <<>>
NoNum == -1

\* Content-addressed: the size of a chunk is a function of its hash.
SizeOf(h) ==
  CASE h = H1 -> 5
    [] h = H2 -> 6
    [] h = H3 -> 7
    [] OTHER -> 8

(***************************************************************************)
(* Remote key layout.                                                      *)
(***************************************************************************)

\* chunkHash.substring(0, 2)
HashPrefix(h) == SubSeq(h, 1, IF Len(h) < 2 THEN Len(h) ELSE 2)

\* `${buildType}/${version}/chunks/${hashPrefix}/${chunkHash}`
ChunkKey(bt, v, h) == <<bt, v, "chunks", HashPrefix(h), h>>

\* `${buildType}/${version}/manifest.json`
ManifestKey(bt, v) == <<bt, v, "manifest.json">>

\* A variant with the latest manifest under another name.
MutLatestKey(bt) == <<bt, "manifest.json">>

\* `${buildType}/roleplayai_manifest.json`
LatestKey(bt) == <<bt, "roleplayai_manifest.json">>

\* `${buildType}/${version}/version.json`
VersionKey(bt, v) == <<bt, v, "version.json">>

(***************************************************************************)
(* Manifest records.  A chunk is [hash, size, offset, url]; a file is      *)
(* [filename, path, url, totalSize, hasChunks, chunks]; a manifest is      *)
(* [version, buildType, manifestType, hasFiles, files].                    *)
(***************************************************************************)

RECURSIVE SumSizes(_)
SumSizes(hs) == IF hs = <<>> THEN 0 ELSE SizeOf(Head(hs)) + SumSizes(Tail(hs))

\* The chunk entries generateManifest writes for a file with these chunk
\* hashes: running offsets, and a url only when withUrl.
ChunkEntries(hs, withUrl, bt, v) ==
  [i \in 1..Len(hs) |->
     [hash |-> hs[i],
      size |-> SizeOf(hs[i]),
      offset |-> SumSizes(SubSeq(hs, 1, i - 1)),
      url |-> IF withUrl THEN ChunkKey(bt, v, hs[i]) ELSE NoUrl]]

FileEntry(name, hs, withUrl, bt, v) ==
  [filename |-> name, path |-> NoStr, url |-> NoUrl,
   totalSize |-> SumSizes(hs), hasChunks |-> TRUE,
   chunks |-> ChunkEntries(hs, withUrl, bt, v)]

\* createChunkManifest(version, files) followed by manifest.buildType = bt
createChunkManifest(v, bt, files) ==
  [version |-> v, buildType |-> bt, manifestType |-> "chunk-based",
   hasFiles |-> TRUE, files |-> files]

\* No manifest at all.
NoManifest ==
  [version |-> NoStr, buildType |-> NoStr, manifestType |-> NoStr,
   hasFiles |-> FALSE, files |-> <<>>]

\* A legacy flat manifest: files carry path and url, no chunks.
LegacyFile(name) ==
  [filename |-> NoStr, path |-> name, url |-> <<"legacy", name>>,
   totalSize |-> NoNum, hasChunks |-> FALSE, chunks |-> <<>>]

LegacyManifest(v, bt, names) ==
  [version |-> v, buildType |-> bt, manifestType |-> NoStr,
   hasFiles |-> TRUE, files |-> [i \in 1..Len(names) |-> LegacyFile(names[i])]]

(***************************************************************************)
(* manifestUtils.                                                          *)
(***************************************************************************)

detectManifestType(m) ==
  IF m.manifestType = "chunk-based" THEN "chunk-based"
  ELSE IF m.hasFiles /\ Len(m.files) > 0 /\ m.files[1].hasChunks
       THEN "chunk-based"
       ELSE "file-based"

\* A variant of the chunk checks that looks at the size first.
MutChunkError(c) ==
  IF c.size = NoNum THEN "Chunk missing size"
  ELSE IF c.hash = NoHash THEN "Chunk missing hash"
  ELSE IF c.offset = NoNum THEN "Chunk missing offset"
  ELSE IF c.url = NoUrl THEN "Chunk missing url"
  ELSE "ok"

\* The first failing check of one chunk, or "ok".
ChunkError(c) ==
  IF c.hash = NoHash THEN "Chunk missing hash"
  ELSE IF c.size = NoNum THEN "Chunk missing size"
  ELSE IF c.offset = NoNum THEN "Chunk missing offset"
  ELSE IF c.url = NoUrl THEN "Chunk missing url"
  ELSE "ok"

RECURSIVE ChunksError(_)
ChunksError(cs) ==
  IF cs = <<>> THEN "ok"
  ELSE IF ChunkError(Head(cs)) # "ok" THEN ChunkError(Head(cs))
  ELSE ChunksError(Tail(cs))

FileError(f) ==
  IF f.filename = NoStr THEN "File missing filename"
  ELSE IF ~f.hasChunks THEN "File missing chunks array"
  ELSE ChunksError(f.chunks)

RECURSIVE FilesError(_)
FilesError(fs) ==
  IF fs = <<>> THEN "ok"
  ELSE IF FileError(Head(fs)) # "ok" THEN FileError(Head(fs))
  ELSE FilesError(Tail(fs))

\* validateChunkManifest: "ok" when it returns true, else the message of
\* the error it throws.  A totalSize mismatch only warns.
validateChunkManifest(m) ==
  IF m.version = NoStr THEN "Manifest missing version"
  ELSE IF ~m.hasFiles THEN "Manifest missing files array"
  ELSE FilesError(m.files)

LegacyFileError(f) ==
  IF f.path = NoStr THEN "File missing path"
  ELSE IF f.url = NoUrl THEN "File missing url"
  ELSE "ok"

RECURSIVE LegacyFilesError(_)
LegacyFilesError(fs) ==
  IF fs = <<>> THEN "ok"
  ELSE IF LegacyFileError(Head(fs)) # "ok" THEN LegacyFileError(Head(fs))
  ELSE LegacyFilesError(Tail(fs))

validateFileManifest(m) ==
  IF m.version = NoStr THEN "Manifest missing version"
  ELSE IF ~m.hasFiles THEN "Manifest missing files array"
  ELSE LegacyFilesError(m.files)

\* parseManifest: [error, type, manifest]; error = "ok" when it returns.
parseManifest(m) ==
  LET type == detectManifestType(m)
  IN [error |-> IF type = "chunk-based" THEN validateChunkManifest(m)
                ELSE validateFileManifest(m),
      type |-> type,
      manifest |-> m]

\* getAllChunks: every chunk of every file, in document order, each
\* carrying its file's name.
RECURSIVE ChunksOfFiles(_)
ChunksOfFiles(fs) ==
  IF fs = <<>> THEN <<>>
  ELSE [i \in 1..Len(Head(fs).chunks) |->
          [hash |-> Head(fs).chunks[i].hash,
           size |-> Head(fs).chunks[i].size,
           offset |-> Head(fs).chunks[i].offset,
           url |-> Head(fs).chunks[i].url,
           file |-> Head(fs).filename]]
       \o ChunksOfFiles(Tail(fs))

getAllChunks(m) == ChunksOfFiles(m.files)

\* The set of hashes of a sequence of chunks.
HashSet(cs) == {cs[i].hash : i \in 1..Len(cs)}

(***************************************************************************)
(* deltaDetector.                                                          *)
(***************************************************************************)

\* Map.has / Map.get on a map filled by files.forEach(f => map.set(
\* f.filename, f)): a later file of the same name replaces an earlier one.
FilesMapHas(fs, name) == \E i \in 1..Len(fs) : fs[i].filename = name

FilesMapGet(fs, name) ==
  fs[CHOOSE i \in 1..Len(fs) :
       /\ fs[i].filename = name
       /\ \A j \in (i + 1)..Len(fs) : fs[j].filename # name]

\* chunks.map(c => c.hash).join(',')
RECURSIVE JoinHashes(_)
JoinHashes(cs) ==
  IF cs = <<>> THEN <<>>
  ELSE IF Len(cs) = 1 THEN cs[1].hash
  ELSE cs[1].hash \o <<",">> \o JoinHashes(Tail(cs))

\* A variant of hasFileChanged that does not compare the hashes.
MutHasFileChanged(oldFile, newFile) ==
  IF oldFile.totalSize # newFile.totalSize THEN TRUE
  ELSE Len(oldFile.chunks) # Len(newFile.chunks)

hasFileChanged(oldFile, newFile) ==
  IF oldFile.totalSize # newFile.totalSize THEN TRUE
  ELSE IF Len(oldFile.chunks) # Len(newFile.chunks) THEN TRUE
  ELSE JoinHashes(oldFile.chunks) # JoinHashes(newFile.chunks)

\* Files of the new manifest whose name the old manifest lacks.
DeltaNewFiles(old, new) ==
  SelectSeq(new.files, LAMBDA f : ~FilesMapHas(old.files, f.filename))

\* Files of the new manifest present in the old one and changed.
DeltaChangedFiles(old, new) ==
  SelectSeq(new.files,
            LAMBDA f : /\ FilesMapHas(old.files, f.filename)
                       /\ hasFileChanged(FilesMapGet(old.files, f.filename), f))

DeltaDeletedFiles(old, new) ==
  SelectSeq(old.files, LAMBDA f : ~FilesMapHas(new.files, f.filename))

\* oldChunks: the hashes of every chunk of the old manifest.
DeltaOldChunks(old) == HashSet(getAllChunks(old))

\* A variant of chunksToUpload that keeps the old hashes of new files.
MutDeltaChunksToUpload(old, new) ==
  HashSet(ChunksOfFiles(DeltaNewFiles(old, new)))
    \cup (HashSet(ChunksOfFiles(DeltaChangedFiles(old, new)))
            \ DeltaOldChunks(old))

\* chunksToUpload = uniqueNewChunks + uniqueChangedChunks, as a set.
DeltaChunksToUpload(old, new) ==
  LET changedChunks == HashSet(ChunksOfFiles(DeltaChangedFiles(old, new)))
      newChunks == HashSet(ChunksOfFiles(DeltaNewFiles(old, new)))
      oldChunks == DeltaOldChunks(old)
      uniqueNewChunks == {h \in newChunks : h \notin oldChunks}
      uniqueChangedChunks == {h \in changedChunks : h \notin oldChunks}
  IN uniqueNewChunks \cup uniqueChangedChunks

NoDelta(msg) ==
  [error |-> msg, newFiles |-> <<>>, changedFiles |-> <<>>,
   deletedFiles |-> <<>>, chunksToUpload |-> {},
   chunksToUploadDetails |-> <<>>]

\* detectDelta(oldManifest, newManifest): error = "ok" when it returns,
\* else the message of the error it throws.
detectDelta(oldM, newM) ==
  LET oldParsed == parseManifest(oldM)
      newParsed == parseManifest(newM)
  IN IF oldParsed.error # "ok" THEN NoDelta(oldParsed.error)
     ELSE IF newParsed.error # "ok" THEN NoDelta(newParsed.error)
     ELSE IF oldParsed.type # "chunk-based" \/ newParsed.type # "chunk-based"
     THEN NoDelta("Both manifests must be chunk-based")
     ELSE [error |-> "ok",
           newFiles |-> DeltaNewFiles(oldM, newM),
           changedFiles |-> DeltaChangedFiles(oldM, newM),
           deletedFiles |-> DeltaDeletedFiles(oldM, newM),
           chunksToUpload |-> DeltaChunksToUpload(oldM, newM),
           chunksToUploadDetails |->
             SelectSeq(getAllChunks(newM),
                       LAMBDA c : c.hash \in DeltaChunksToUpload(oldM, newM))]

(***************************************************************************)
(* State.                                                                  *)
(***************************************************************************)

VARIABLES
  store,              \* the remote bucket: key -> object
  localChunks,        \* hashes whose chunk file exists under chunksDir
  opts,               \* the options of upload(): manifests, mode, version
  run,                \* number of upload() invocations started
  prev,               \* the outcome of the previous invocation
  promo,              \* the promoteVersion() calls, one record per caller
  isPaused,           \* UploadManager.isPaused
  pauseResumePromise, \* UploadManager.pauseResumePromise (0: null)
  pauseResolve,       \* the promise UploadManager.pauseResolve settles (0: null)
  settled,            \* the resolved promises that are still awaited
  nextPromise,        \* the next promise identity new Promise() yields
  currentUploadManager, \* main.js: the session reference (0: null)
  pc,                 \* position of the upload() invocation
  awaited,            \* the promise upload() is suspended on (0: none)
  buildType,          \* upload(): let buildType
  chunksToUpload,     \* upload(): the worklist
  i,                  \* upload(): the loop index (0-based)
  uploadedChunks,     \* upload(): counters
  skippedChunks,
  failedChunks,
  result,             \* what upload() returned or threw
  log,                \* history: one record per worklist item begun
  putLog,             \* history: every PutObject sent, in order
  deltaOld,           \* detect-delta: the old manifest read from disk
  deltaNew,           \* detect-delta: the new manifest read from disk
  delta,              \* detect-delta: what detectDelta returned or threw
  verify,             \* verify-upload: the call and its verifyManifest results
  fastCDC,            \* a FastCDC instance: its sizes and the calls made
  chunkCache,         \* ChunkManager: the files under chunkCacheDir
  cacheCall,          \* ChunkManager: the last storeChunk / getChunk call
  recon,              \* ChunkManager: the reconstructFile call
  pack,               \* packagePrep: the generateManifest call
  sessions,           \* main: the upload-to-r2 invocations side by side
  listing             \* R2Uploader: the listVersions call

deltaVars == <<deltaOld, deltaNew, delta>>
packVars == <<fastCDC, chunkCache, cacheCall, recon, pack>>
callVars == <<sessions, listing>>
handlerVars == <<deltaVars, verify, packVars, callVars>>
envVars == <<store, localChunks, opts, handlerVars, run, prev, promo>>
pauseVars == <<isPaused, pauseResumePromise, pauseResolve, settled, nextPromise>>
loopVars == <<currentUploadManager, pc, awaited, buildType, chunksToUpload, i,
              uploadedChunks, skippedChunks, failedChunks, result>>
histVars == <<log, putLog>>
vars == <<envVars, pauseVars, loopVars, histVars>>

(***************************************************************************)
(* FastCDC.  A buffer is a sequence of bytes; the sizes of an instance are *)
(* those its constructor ends up with (an option that is absent or 0 is    *)
(* replaced by the default).                                               *)
(***************************************************************************)

\* The byte values and the longest buffer explored.
Bytes == {0, 1}
MaxLen == 4
Buffers == UNION {[1..n -> Bytes] : n \in 0..MaxLen}

\* Sizes explored: minSize below, at and above maxSize.
Configs == [minSize : {1, 2, 3}, avgSize : {2, 4}, maxSize : {2, 3}]

RECURSIVE Log2Floor(_)
Log2Floor(n) == IF n < 2 THEN 0 ELSE 1 + Log2Floor(n \div 2)

\* An avgSize beyond the integers of the model is written as
\* mantissa * 2^exponent, whose floor(log2) is exact.
BigSize(mantissa, exponent) == [mantissa |-> mantissa, exponent |-> exponent]
Log2FloorOf(size) == size.exponent + Log2Floor(size.mantissa)

\* 1 << bits: the shift count is taken modulo 32 and the result is a
\* signed 32-bit integer, -2^31 for a count of 31.
ShiftLeftOne(bits) ==
  IF bits % 32 = 31 THEN -2147483647 - 1 ELSE 2 ^ (bits % 32)

\* calculateMask: (1 << floor(log2(avgSize))) - 1
calculateMask(avgSize) == ShiftLeftOne(Log2Floor(avgSize)) - 1

\* The rolling hash is a 64-bit value of which only the bits under the
\* mask are ever read; its low 16 bits are kept, which the masks of all
\* sizes explored lie within.
HashModulus == 65536

\* generateGearTable: gear[i] = (i * 0x9e3779b97f4a7c15) mod 2^64, of
\* which the low 16 bits are (i * 0x7c15) mod 2^16.
GearMultiplier == 31765
gear(byte) == (byte * GearMultiplier) % HashModulus

\* updateHash: ((hash << 1) + gear[byte]) & 0xffffffffffffffff
updateHash(hash, byte) == (hash * 2 + gear(byte)) % HashModulus

\* A variant of isChunkBoundary without the forced boundary at maxSize.
MutIsChunkBoundary(cfg, hash, position) ==
  IF position < cfg.minSize THEN FALSE
  ELSE hash % (calculateMask(cfg.avgSize) + 1) = 0

\* isChunkBoundary: (hash & mask) === 0 is "hash is a multiple of
\* mask + 1", the mask being a power of two less one.
isChunkBoundary(cfg, hash, position) ==
  IF position < cfg.minSize THEN FALSE
  ELSE IF position >= cfg.maxSize THEN TRUE
  ELSE hash % (calculateMask(cfg.avgSize) + 1) = 0

\* crypto.createHash('sha256').update(data).digest('hex'): a hex string
\* that no two contents share; here the length of the content, a
\* separator and the content, one character per byte.
HexDigit(n) == IF n = 0 THEN "0" ELSE IF n = 1 THEN "1" ELSE IF n = 2 THEN "2"
               ELSE IF n = 3 THEN "3" ELSE IF n = 4 THEN "4"
               ELSE IF n = 5 THEN "5" ELSE IF n = 6 THEN "6"
               ELSE IF n = 7 THEN "7" ELSE IF n = 8 THEN "8" ELSE "9"

Sha256(data) ==
  <<HexDigit(Len(data)), "f">> \o [k \in 1..Len(data) |-> HexDigit(data[k])]

\* A variant of the chunk record whose offset is where the chunk ends.
MutNewChunk(buffer, start, end) ==
  [hash |-> Sha256(SubSeq(buffer, start + 1, end)),
   size |-> end - start,
   offset |-> end,
   data |-> SubSeq(buffer, start + 1, end)]

\* The chunk made of the bytes of buffer after position start up to end.
NewChunk(buffer, start, end) ==
  [hash |-> Sha256(SubSeq(buffer, start + 1, end)),
   size |-> end - start,
   offset |-> start,
   data |-> SubSeq(buffer, start + 1, end)]

\* A variant of the boundary step that keeps the rolling hash.
MutHashAfterBoundary(hash) == hash

\* "hash = 0n" after a chunk is pushed.
HashAfterBoundary(hash) == 0

\* The loop of chunkBuffer / chunkFile from byte `offset' + 1 on: the
\* chunks pushed, the start of the chunk under way and the rolling hash
\* when the last byte has been read.
RECURSIVE ChunkScan(_, _, _, _, _, _)
ChunkScan(cfg, buffer, offset, hash, chunkStart, chunks) ==
  IF offset = Len(buffer)
  THEN [chunks |-> chunks, chunkStart |-> chunkStart, hash |-> hash]
  ELSE LET h == updateHash(hash, buffer[offset + 1])
       IN IF isChunkBoundary(cfg, h, offset + 1 - chunkStart)
          THEN ChunkScan(cfg, buffer, offset + 1, HashAfterBoundary(h),
                         offset + 1,
                         Append(chunks,
                                NewChunk(buffer, chunkStart, offset + 1)))
          ELSE ChunkScan(cfg, buffer, offset + 1, h, chunkStart, chunks)

\* The loop and, after it, the remaining data as the final chunk.
ChunkLoop(cfg, buffer, offset, hash, chunkStart, chunks) ==
  LET scan == ChunkScan(cfg, buffer, offset, hash, chunkStart, chunks)
  IN IF scan.chunkStart < Len(buffer)
     THEN Append(scan.chunks, NewChunk(buffer, scan.chunkStart, Len(buffer)))
     ELSE scan.chunks

\* A variant in which the hash starts from the number of calls made.
MutInitialHash(calls) == calls

\* chunkBuffer / chunkFile: "let hash = 0n", whatever the instance has
\* chunked before.
InitialHash(calls) == 0

chunkBuffer(cfg, buffer, calls) ==
  ChunkLoop(cfg, buffer, 0, InitialHash(calls), 0, <<>>)

\* No chunkBuffer / chunkFile call.
NoChunking == [made |-> FALSE, input |-> <<>>, chunks |-> <<>>]

\* The sizes in the proportions of the defaults (5, 10 and 20 MiB).
DefaultConfig == [minSize |-> 1, avgSize |-> 2, maxSize |-> 4]

\* A new FastCDC instance.
\* `avgSize' and `maskPlusOne' are this.avgSize and this.mask + 1, the
\* value of 1 << bits; `hash' and `fed' are the rolling hash of a scan
\* and the bytes it was fed.
NewFastCDC(cfg) ==
  [config |-> cfg, calls |-> 0, firstCall |-> NoChunking,
   lastCall |-> NoChunking,
   avgSize |-> BigSize(cfg.avgSize, 0),
   maskPlusOne |-> calculateMask(cfg.avgSize) + 1,
   hash |-> 0, fed |-> 0]

\* new FastCDC({avgSize}) for an avgSize of any magnitude.
NewFastCDCOfSize(size) ==
  [NewFastCDC(DefaultConfig) EXCEPT
     !.avgSize = size,
     !.maskPlusOne = ShiftLeftOne(Log2FloorOf(size))]

(***************************************************************************)
(* ChunkManager: the chunk cache directory, storeChunk, getChunk and       *)
(* reconstructFile.                                                        *)
(***************************************************************************)

\* getChunkPath: chunkCacheDir / hash.substring(0, 2) / hash
getChunkPath(chunkHash) ==
  <<SubSeq(chunkHash, 1, IF Len(chunkHash) < 2 THEN Len(chunkHash) ELSE 2),
    chunkHash>>

EmptyCache == [x \in {} |-> <<>>]

\* A variant of fs.writeFile that appends to a file that exists.
MutWriteFile(cache, path, data) ==
  [x \in DOMAIN cache \cup {path} |->
     IF x # path THEN cache[x]
     ELSE IF path \in DOMAIN cache THEN cache[path] \o data ELSE data]

\* fs.writeFile(path, data): the file holds data, whatever it held.
WriteFile(cache, path, data) ==
  [x \in DOMAIN cache \cup {path} |-> IF x = path THEN data ELSE cache[x]]

\* A variant of the check in getChunk that accepts any content.
MutDigestMatches(data, chunkHash) == TRUE

\* getChunk: calculatedHash === chunkHash
DigestMatches(data, chunkHash) == Sha256(data) = chunkHash

\* What getChunk(chunkHash) does when the file system answers: null for
\* a file that is not there, the bytes, or the mismatch error.
getChunk(cache, chunkHash) ==
  IF getChunkPath(chunkHash) \notin DOMAIN cache
  THEN [outcome |-> "null", bytes |-> <<>>]
  ELSE IF DigestMatches(cache[getChunkPath(chunkHash)], chunkHash)
  THEN [outcome |-> "bytes", bytes |-> cache[getChunkPath(chunkHash)]]
  ELSE [outcome |-> "error", bytes |-> <<>>]

\* No storeChunk / getChunk call yet.
NoCacheCall ==
  [op |-> "none", hash |-> <<>>, data |-> <<>>, outcome |-> "none",
   bytes |-> <<>>, before |-> EmptyCache]

\* storeChunk(chunkHash, chunkData): mkdir and writeFile succeed and it
\* returns true, or one of them fails, nothing is written and it returns
\* false.
StoreChunk(chunkHash, chunkData) ==
  /\ \E ok \in BOOLEAN :
       /\ chunkCache' = IF ok
                        THEN WriteFile(chunkCache, getChunkPath(chunkHash),
                                       chunkData)
                        ELSE chunkCache
       /\ cacheCall' = [op |-> "storeChunk", hash |-> chunkHash,
                        data |-> chunkData,
                        outcome |-> IF ok THEN "true" ELSE "false",
                        bytes |-> <<>>, before |-> chunkCache]
  /\ UNCHANGED <<fastCDC, recon>>

\* getChunk(chunkHash): readFile is answered, or the read of a file that
\* is there fails with an error other than ENOENT, which getChunk
\* rethrows.
GetChunk(chunkHash) ==
  /\ \E answered \in BOOLEAN :
       LET failed == ~answered /\ getChunkPath(chunkHash) \in DOMAIN chunkCache
       IN cacheCall' = [op |-> "getChunk", hash |-> chunkHash, data |-> <<>>,
                        outcome |-> IF failed THEN "error"
                                    ELSE getChunk(chunkCache, chunkHash).outcome,
                        bytes |-> IF failed THEN <<>>
                                  ELSE getChunk(chunkCache, chunkHash).bytes,
                        before |-> chunkCache]
  /\ UNCHANGED <<fastCDC, chunkCache, recon, pack>>

\* reconstructFile: the reads started together (BATCH_SIZE is 50 in the
\* source; the batches explored are this long).
BATCH_SIZE == 2

\* (a.offset || 0)
OffsetKey(c) == c.offset

RECURSIVE InsertByOffset(_, _)
InsertByOffset(c, sorted) ==
  IF sorted = <<>> THEN <<c>>
  ELSE IF OffsetKey(c) < OffsetKey(Head(sorted)) THEN <<c>> \o sorted
  ELSE <<Head(sorted)>> \o InsertByOffset(c, Tail(sorted))

\* A variant that leaves the chunks in the order given.
MutSortByOffset(chunks) == chunks

\* [...chunks].sort((a, b) => (a.offset || 0) - (b.offset || 0)): a
\* stable sort.
RECURSIVE SortByOffset(_)
SortByOffset(chunks) ==
  IF chunks = <<>> THEN <<>>
  ELSE InsertByOffset(chunks[Len(chunks)],
                      SortByOffset(SubSeq(chunks, 1, Len(chunks) - 1)))

\* A variant that writes the chunks of a batch as their reads complete.
MutWriteOrder(batch, arrival) == arrival

\* await Promise.all(chunkDataPromises): the results in the order of the
\* batch, whatever order the reads completed in.
WriteOrder(batch, arrival) == batch

\* No reconstructFile call.
IdleRecon ==
  [pc |-> "idle", source |-> <<>>, chunks |-> <<>>, sorted |-> FALSE,
   currentIndex |-> 0, batchEnd |-> 0, pending |-> {}, arrival |-> <<>>,
   order |-> <<>>, written |-> <<>>, output |-> <<>>, totalWritten |-> 0,
   size |-> -1, error |-> "none"]

\* The entries handed to reconstructFile: the chunks of the chunker with
\* their data, or { hash, size, offset } as a manifest lists them.
ChunkEntry(c, withData) ==
  [hash |-> c.hash, size |-> c.size, offset |-> c.offset,
   hasData |-> withData, data |-> IF withData THEN c.data ELSE <<>>]

ChunkOrders(n) ==
  {f \in [1..n -> 1..n] : \A a, b \in 1..n : f[a] = f[b] => a = b}

\* reconstructFile(chunks, outputPath) is called: the chunks are sorted
\* and the write stream is created.
ReconstructStart(source, chunks) ==
  /\ recon.pc = "idle"
  /\ recon' = [IdleRecon EXCEPT !.pc = "batch", !.source = source,
                                !.chunks = SortByOffset(chunks),
                                !.sorted = chunks = SortByOffset(chunks)]
  /\ UNCHANGED <<fastCDC, chunkCache, cacheCall, pack>>

\* The head of the loop: the reads of the next batch start together, or
\* the stream is ended.
ReconstructBatch ==
  /\ recon.pc = "batch"
  /\ IF recon.currentIndex < Len(recon.chunks)
     THEN LET batchEnd == IF recon.currentIndex + BATCH_SIZE
                               < Len(recon.chunks)
                          THEN recon.currentIndex + BATCH_SIZE
                          ELSE Len(recon.chunks)
          IN recon' = [recon EXCEPT
                         !.pc = "reading",
                         !.batchEnd = batchEnd,
                         !.pending = (recon.currentIndex + 1)..batchEnd,
                         !.arrival = <<>>]
     ELSE recon' = [recon EXCEPT !.pc = "ending"]
  /\ UNCHANGED <<fastCDC, chunkCache, cacheCall, pack>>

\* One read of the batch completes: the data the entry carries, or what
\* getChunk yields; a missing or corrupt chunk rejects Promise.all and
\* the stream is destroyed.
ReconstructRead ==
  /\ recon.pc = "reading"
  /\ \E n \in recon.pending :
       LET c == recon.chunks[n]
           read == getChunk(chunkCache, c.hash)
       IN IF c.hasData \/ read.outcome = "bytes"
          THEN LET arrival == Append(recon.arrival, n)
                   done == recon.pending = {n}
                   batch == [k \in 1..(recon.batchEnd - recon.currentIndex)
                               |-> recon.currentIndex + k]
               IN recon' = [recon EXCEPT
                              !.pending = @ \ {n},
                              !.arrival = arrival,
                              !.order = IF done
                                        THEN WriteOrder(batch, arrival)
                                        ELSE @,
                              !.pc = IF done THEN "writing" ELSE @]
          ELSE recon' = [recon EXCEPT
                           !.pc = "failed",
                           !.error = IF read.outcome = "null"
                                     THEN "Missing chunk"
                                     ELSE "Chunk hash mismatch"]
  /\ UNCHANGED <<fastCDC, chunkCache, cacheCall, pack>>

\* The data of sorted chunk n as its read delivered it.
ChunkData(n) ==
  IF recon.chunks[n].hasData THEN recon.chunks[n].data
  ELSE getChunk(chunkCache, recon.chunks[n].hash).bytes

\* writeStream.write of the next element of chunkDataArray; after the
\* last one the loop goes on with currentIndex = batchEnd.
ReconstructWrite ==
  /\ recon.pc = "writing"
  /\ LET n == Head(recon.order)
         last == Len(recon.order) = 1
     IN recon' = [recon EXCEPT
                    !.order = Tail(@),
                    !.written = Append(@, n),
                    !.output = @ \o ChunkData(n),
                    !.totalWritten = @ + Len(ChunkData(n)),
                    !.currentIndex = IF last THEN recon.batchEnd ELSE @,
                    !.pc = IF last THEN "batch" ELSE @]
  /\ UNCHANGED <<fastCDC, chunkCache, cacheCall, pack>>

\* writeStream.end() and its 'finish' event: the call resolves with
\* size = totalWritten.
ReconstructFinish ==
  /\ recon.pc = "ending"
  /\ recon' = [recon EXCEPT !.pc = "finished", !.size = recon.totalWritten]
  /\ UNCHANGED <<fastCDC, chunkCache, cacheCall, pack>>

(***************************************************************************)
(* packagePrep: generateManifest over a source directory.  A source file   *)
(* is [filename, data]; the pass chunks each file with the FastCDC of a    *)
(* new ChunkManager whose cache directory is outputDir/chunks.             *)
(***************************************************************************)

SourceFile(name, data) == [filename |-> name, data |-> data]

\* The files to process after filtering: none, one file of every content
\* explored, or that file followed by a second one sharing content.
PackSources ==
  {<<>>}
    \cup {<<SourceFile("a.bin", b)>> : b \in Buffers}
    \cup {<<SourceFile("a.bin", b), SourceFile("b.bin", <<0, 1, 1>>)>> :
            b \in Buffers}

\* chunkSizes handed to the ChunkManager.
PackConfigs == Configs \cup {DefaultConfig}

\* What stops generateManifest before the scan, or "ok".
PackOptionErrors ==
  {"ok", "Missing required options: sourceDir, outputDir, version",
   "Invalid buildType. Must be \"production\" or \"staging\"",
   "Source directory not found"}

\* No generateManifest call.  `unreadable' and `notStored' are history:
\* the files whose stat or chunkFile threw, and the hashes whose storeChunk
\* returned false.
IdlePack ==
  [pc |-> "idle", files |-> <<>>, i |-> 0, chunks |-> <<>>, k |-> 0,
   fileChunks |-> <<>>, offset |-> 0, processedFiles |-> <<>>,
   totalChunks |-> 0, totalSize |-> 0, uniqueChunks |-> {},
   unreadable |-> {}, notStored |-> {}, manifest |-> NoManifest,
   result |-> "none", error |-> NoStr]

\* generateManifest up to the scan: validation, mkdir, new ChunkManager,
\* getAllFiles and the filter.
GenerateManifest ==
  /\ pack.pc = "idle"
  /\ \E problem \in PackOptionErrors, files \in PackSources,
        cfg \in PackConfigs :
       IF problem # "ok"
       THEN /\ pack' = [pack EXCEPT !.pc = "done", !.result = "error",
                                    !.error = problem]
            /\ UNCHANGED fastCDC
       ELSE IF files = <<>>
       THEN /\ pack' = [pack EXCEPT !.pc = "done", !.result = "error",
                                    !.error = "No files found to process"]
            /\ fastCDC' = NewFastCDC(cfg)
       ELSE /\ pack' = [pack EXCEPT !.pc = "files", !.files = files]
            /\ fastCDC' = NewFastCDC(cfg)
  /\ UNCHANGED <<chunkCache, cacheCall, recon>>

\* catch (error) { console.error(...); /* Continue with other files */ }
SkipFile ==
  [pack EXCEPT !.pc = "files", !.i = @ + 1,
               !.unreadable = @ \cup {pack.files[pack.i + 1].filename}]

\* await fs.stat(fullPath) of file i.
PackStat ==
  /\ pack.pc = "files"
  /\ pack.i < Len(pack.files)
  /\ \E ok \in BOOLEAN :
       pack' = IF ok THEN [pack EXCEPT !.pc = "chunkFile"] ELSE SkipFile
  /\ UNCHANGED <<fastCDC, chunkCache, cacheCall, recon>>

\* await chunkManager.fastCDC.chunkFile(fullPath): the chunks of the
\* file, or an error of open / read.
PackChunkFile ==
  /\ pack.pc = "chunkFile"
  /\ \E ok \in BOOLEAN :
       IF ok
       THEN LET data == pack.files[pack.i + 1].data
                call == [made |-> TRUE, input |-> data,
                         chunks |-> chunkBuffer(fastCDC.config, data,
                                                fastCDC.calls)]
            IN /\ fastCDC' = [fastCDC EXCEPT
                                !.calls = @ + 1,
                                !.firstCall =
                                   IF fastCDC.calls = 0 THEN call ELSE @,
                                !.lastCall = call]
               /\ pack' = [pack EXCEPT !.pc = "chunks",
                                       !.chunks = call.chunks, !.k = 0,
                                       !.fileChunks = <<>>, !.offset = 0]
       ELSE /\ pack' = SkipFile
            /\ UNCHANGED fastCDC
  /\ UNCHANGED <<chunkCache, cacheCall, recon>>

\* One turn of "for (const chunk of chunks)": storeChunk for a hash not
\* seen in this pass, its result dropped, then the manifest entry.
PackChunk ==
  /\ pack.pc = "chunks"
  /\ pack.k < Len(pack.chunks)
  /\ LET chunk == pack.chunks[pack.k + 1]
         entry == [hash |-> chunk.hash, size |-> chunk.size,
                   offset |-> pack.offset, url |-> NoUrl]
         seen == chunk.hash \in pack.uniqueChunks
     IN /\ IF seen
           THEN UNCHANGED <<fastCDC, chunkCache, cacheCall, recon>>
           ELSE StoreChunk(chunk.hash, chunk.data)
        /\ pack' = [pack EXCEPT
                      !.k = @ + 1,
                      !.uniqueChunks = @ \cup {chunk.hash},
                      !.notStored =
                         IF ~seen /\ cacheCall'.outcome = "false"
                         THEN @ \cup {chunk.hash} ELSE @,
                      !.fileChunks = Append(@, entry),
                      !.offset = @ + chunk.size]

\* processedFiles.push({filename, totalSize: fileSize, chunks}) with the
\* size fs.stat reported, and the counters.
PackFileDone ==
  /\ pack.pc = "chunks"
  /\ pack.k = Len(pack.chunks)
  /\ LET file == pack.files[pack.i + 1]
     IN pack' = [pack EXCEPT
                   !.pc = "files", !.i = @ + 1,
                   !.processedFiles =
                      Append(@, [filename |-> file.filename,
                                 totalSize |-> Len(file.data),
                                 chunks |-> pack.fileChunks]),
                   !.totalChunks = @ + Len(pack.chunks),
                   !.totalSize = @ + Len(file.data)]
  /\ UNCHANGED <<fastCDC, chunkCache, cacheCall, recon>>

\* createChunkManifest's entry of a processed file:
\* totalSize: file.totalSize || sum of the chunk sizes.
RECURSIVE SumOfChunkSizes(_)
SumOfChunkSizes(cs) ==
  IF cs = <<>> THEN 0 ELSE Head(cs).size + SumOfChunkSizes(Tail(cs))

ManifestFile(file) ==
  [filename |-> file.filename, path |-> NoStr, url |-> NoUrl,
   totalSize |-> IF file.totalSize # 0 THEN file.totalSize
                 ELSE SumOfChunkSizes(file.chunks),
   hasChunks |-> TRUE, chunks |-> file.chunks]

\* After the loop: the manifest and version.json are written and the
\* call returns success, or a write fails and it throws.
PackFinish ==
  /\ pack.pc = "files"
  /\ pack.i = Len(pack.files)
  /\ \E written \in BOOLEAN :
       pack' = IF written
               THEN [pack EXCEPT
                       !.pc = "done", !.result = "success",
                       !.manifest =
                          createChunkManifest(
                            "v2", "production",
                            [n \in 1..Len(pack.processedFiles) |->
                               ManifestFile(pack.processedFiles[n])])]
               ELSE [pack EXCEPT !.pc = "done", !.result = "error",
                                 !.error = "write failed"]
  /\ UNCHANGED <<fastCDC, chunkCache, cacheCall, recon>>

\* Nothing has been packaged.
NoPackaging ==
  /\ fastCDC = NewFastCDC(DefaultConfig)
  /\ chunkCache = EmptyCache
  /\ cacheCall = NoCacheCall
  /\ recon = IdleRecon
  /\ pack = IdlePack

(***************************************************************************)
(* Bounds and inputs.                                                      *)
(***************************************************************************)

\* Calls of pause() in one execution (each creates a new promise).
MaxPauses == 2
\* Invocations of upload() with the same options.
MaxRuns == 2

\* Version 2 with a single one-chunk file.
ManifestD(withUrl, bt) ==
  createChunkManifest("v2", bt,
    <<FileEntry("a.bin", <<H2>>, withUrl, bt, "v2")>>)

\* Version 1: {a.bin: [h1, h2]}; version 2: {a.bin: [h1, h3], b.bin: [h4]}.
ManifestA(withUrl, bt) ==
  createChunkManifest("v1", bt,
    <<FileEntry("a.bin", <<H1, H2>>, withUrl, bt, "v1")>>)

ManifestB(withUrl, bt) ==
  createChunkManifest("v2", bt,
    <<FileEntry("a.bin", <<H1, H3>>, withUrl, bt, "v2"),
      FileEntry("b.bin", <<H4>>, withUrl, bt, "v2")>>)

\* Version 2 with one chunk occurring in two files.
ManifestC(withUrl, bt) ==
  createChunkManifest("v2", bt,
    <<FileEntry("a.bin", <<H3>>, withUrl, bt, "v2"),
      FileEntry("b.bin", <<H3, H1>>, withUrl, bt, "v2")>>)

Options(new, old, mode) ==
  [newManifest |-> new, oldManifest |-> old, mode |-> mode,
   version |-> "v2", providedBuildType |-> "production"]

\* The invocations explored: full uploads of a freshly generated manifest
\* and of one with a repeated chunk, delta mode without an old manifest,
\* delta uploads against version 1 with and without chunk urls in the
\* local manifests, a delta against another build type, and uploads of
\* legacy flat manifests (with one file, with none, and as the old side of
\* a delta).
UploadOptions ==
  {Options(ManifestB(FALSE, "production"), NoManifest, "full"),
   Options(ManifestC(TRUE, "production"), NoManifest, "full"),
   Options(ManifestD(FALSE, "production"), NoManifest, "delta"),
   Options(ManifestB(TRUE, "production"), ManifestA(TRUE, "production"), "delta"),
   Options(ManifestB(FALSE, "production"), ManifestA(FALSE, "production"), "delta"),
   Options(ManifestB(TRUE, "production"), ManifestA(TRUE, "staging"), "delta"),
   Options(LegacyManifest("v2", "production", <<"a.bin">>), NoManifest, "full"),
   Options(LegacyManifest("v2", "production", <<>>), NoManifest, "full"),
   Options(ManifestD(TRUE, "production"),
           LegacyManifest("v1", "production", <<"a.bin">>), "delta")}

LocalStores == {Hashes, Hashes \ {H3}}

(***************************************************************************)
(* The remote store.                                                       *)
(***************************************************************************)

\* A variant of objectExists that never finds the object.
MutObjectExists(s, k) == FALSE

\* objectExists: a HEAD request that is answered (an unanswered one throws).
ObjectExists(s, k) == k \in DOMAIN s

\* A variant of the put that stores nothing.
MutPutObject(s, k, body) == s

\* A variant of the put that keeps an object that is already there.
MutPutObjectFirst(s, k, body) ==
  [x \in DOMAIN s \cup {k} |-> IF x \in DOMAIN s THEN s[x] ELSE body]

\* A variant of the put that leaves only the object written.
MutPutObjectAlone(s, k, body) == [x \in {k} |-> body]

\* PutObjectCommand: the object at key k becomes body.
PutObject(s, k, body) ==
  [x \in DOMAIN s \cup {k} |-> IF x = k THEN body ELSE s[x]]

ChunkObject(h) == [kind |-> "chunk", hash |-> h, manifest |-> NoManifest]
ManifestObject(m) == [kind |-> "manifest", hash |-> NoHash, manifest |-> m]
VersionObject(v) ==
  [kind |-> "version", hash |-> NoHash,
   manifest |-> [NoManifest EXCEPT !.version = v]]

EmptyStore == [k \in {} |-> ChunkObject(H1)]

\* The bucket after an earlier complete upload of manifest m as its own
\* version: its chunks only (manifests are not needed by later uploads).
RECURSIVE PutChunks(_, _, _, _)
PutChunks(s, bt, v, cs) ==
  IF cs = <<>> THEN s
  ELSE PutChunks(PutObject(s, ChunkKey(bt, v, Head(cs).hash),
                           ChunkObject(Head(cs).hash)),
                 bt, v, Tail(cs))

StoreAfterUploadOf(m) ==
  IF m.hasFiles
  THEN PutChunks(EmptyStore, m.buildType, m.version, getAllChunks(m))
  ELSE EmptyStore

(***************************************************************************)
(* UploadManager: pause(), resume(), waitIfPaused().                       *)
(***************************************************************************)

InFlight == pc \notin {"idle", "returned", "threw"}

\* A variant of resume() that replaces the wait condition as pause() does.
MutResume ==
  /\ InFlight
  /\ nextPromise <= MaxPauses
  /\ isPaused' = FALSE
  /\ pauseResumePromise' = nextPromise
  /\ pauseResolve' = nextPromise
  /\ nextPromise' = nextPromise + 1
  /\ UNCHANGED <<settled, envVars, loopVars, histVars>>

\* pause(): set the flag and replace the promise and its resolver.
pause ==
  /\ InFlight
  /\ nextPromise <= MaxPauses
  /\ isPaused' = TRUE
  /\ pauseResumePromise' = nextPromise
  /\ pauseResolve' = nextPromise
  /\ nextPromise' = nextPromise + 1
  /\ UNCHANGED <<settled, envVars, loopVars, histVars>>

\* resume(): clear the flag; resolve the promise whose resolver is held.
\* (A resolved promise that nothing awaits is dropped from `settled': it is
\* no longer referenced, since pauseResumePromise is cleared here.)
resume ==
  /\ InFlight
  /\ isPaused' = FALSE
  /\ IF pauseResolve # 0
     THEN /\ settled' = IF awaited = pauseResolve THEN {pauseResolve}
                        ELSE settled
          /\ pauseResolve' = 0
          /\ pauseResumePromise' = 0
     ELSE UNCHANGED <<settled, pauseResolve, pauseResumePromise>>
  /\ UNCHANGED <<nextPromise, envVars, loopVars, histVars>>

\* The pause-upload handler: pause() on the session reference if there is
\* one; its reply.
PauseUploadReply ==
  IF currentUploadManager # 0 THEN "Upload paused"
  ELSE "No active upload to pause"

PauseUpload ==
  IF currentUploadManager # 0 THEN pause ELSE UNCHANGED vars

\* The resume-upload handler.
ResumeUploadReply ==
  IF currentUploadManager # 0 THEN "Upload resumed"
  ELSE "No active upload to resume"

ResumeUpload ==
  IF currentUploadManager # 0 THEN resume ELSE UNCHANGED vars

\* waitIfPaused(): the promise its caller ends up suspended on (0 when the
\* function returns without awaiting anything).
waitIfPaused ==
  IF isPaused /\ pauseResumePromise # 0 THEN pauseResumePromise ELSE 0

\* An await on promise p can continue.
Resumable(p) == p = 0 \/ p \in settled

(***************************************************************************)
(* UploadManager.upload().                                                 *)
(***************************************************************************)

\* upload(): buildType = newManifest.buildType || providedBuildType
EffectiveBuildType(o) ==
  IF o.newManifest.buildType # NoStr THEN o.newManifest.buildType
  ELSE o.providedBuildType

IsDelta(o) == o.mode = "delta" /\ o.oldManifest.hasFiles

\* getAllChunks iterates file.chunks of every file: it throws on a file
\* without a chunks array.
GetAllChunksThrows(m) ==
  ~m.hasFiles \/ \E k \in 1..Len(m.files) : ~m.files[k].hasChunks

\* The error upload() throws before its loop, or "ok".
PrepareError(o) ==
  IF IsDelta(o)
  THEN IF /\ o.oldManifest.buildType # NoStr
          /\ o.oldManifest.buildType # EffectiveBuildType(o)
       THEN "Cannot compare manifests"
       ELSE detectDelta(o.oldManifest, o.newManifest).error
  ELSE IF GetAllChunksThrows(o.newManifest) THEN "not iterable" ELSE "ok"

\* The worklist: delta.chunksToUploadDetails, or every chunk.
Worklist(o) ==
  IF IsDelta(o)
  THEN detectDelta(o.oldManifest, o.newManifest).chunksToUploadDetails
  ELSE getAllChunks(o.newManifest)

\* A variant of the returned stats without the failed count.
MutStats ==
  [totalChunks |-> Len(chunksToUpload), uploadedChunks |-> uploadedChunks,
   skippedChunks |-> skippedChunks, failedChunks |-> 0]

\* upload(): the stats of the value it returns.
Stats ==
  [totalChunks |-> Len(chunksToUpload), uploadedChunks |-> uploadedChunks,
   skippedChunks |-> skippedChunks, failedChunks |-> failedChunks]

NoResult ==
  [success |-> FALSE, error |-> "none",
   stats |-> [totalChunks |-> 0, uploadedChunks |-> 0,
              skippedChunks |-> 0, failedChunks |-> 0]]

\* The upload-to-r2 handler: a new UploadManager becomes the session
\* reference, and the part of upload() before its loop runs.
StartUpload ==
  /\ pc \in {"idle", "returned", "threw"}
  /\ run < MaxRuns
  /\ run' = run + 1
  /\ prev' = result
  /\ isPaused' = FALSE
  /\ pauseResumePromise' = 0
  /\ pauseResolve' = 0
  /\ settled' = {}
  /\ UNCHANGED nextPromise
  /\ awaited' = 0
  /\ buildType' = EffectiveBuildType(opts)
  /\ i' = 0
  /\ uploadedChunks' = 0
  /\ skippedChunks' = 0
  /\ failedChunks' = 0
  /\ log' = <<>>
  /\ putLog' = <<>>
  /\ IF PrepareError(opts) # "ok"
     THEN /\ pc' = "threw"
          /\ currentUploadManager' = 0
          /\ chunksToUpload' = <<>>
          /\ result' = [NoResult EXCEPT !.error = PrepareError(opts)]
     ELSE /\ pc' = "loop"
          /\ currentUploadManager' = run + 1
          /\ chunksToUpload' = Worklist(opts)
          /\ result' = NoResult
  /\ UNCHANGED <<store, localChunks, opts, handlerVars, promo>>

\* The record of a worklist item whose processing begins.
NewLogEntry ==
  [index |-> i, paused |-> isPaused, local |-> "unknown",
   remote |-> "unknown", existed |-> FALSE, puts |-> 0,
   outcome |-> "pending"]

SetLast(field, value) ==
  log' = [log EXCEPT ![Len(log)] = [@ EXCEPT ![field] = value]]

\* Loop head: i < length, then the call of waitIfPaused() and the await
\* on its result; or the loop ends.
LoopHead ==
  /\ pc = "loop"
  /\ IF i < Len(chunksToUpload)
     THEN /\ awaited' = waitIfPaused
          /\ pc' = "await1"
     ELSE /\ awaited' = 0
          /\ pc' = "manifest"
  /\ UNCHANGED <<buildType, chunksToUpload, currentUploadManager, i, uploadedChunks, skippedChunks,
                 failedChunks, result, envVars, pauseVars, histVars>>

\* Processing of item i begins: the call of fs.access(chunkPath).
BeginItem ==
  /\ pc' = "access"
  /\ awaited' = 0
  /\ log' = Append(log, NewLogEntry)

\* After the first wait: "if (this.isPaused) await this.waitIfPaused()".
AfterFirstWait ==
  /\ pc = "await1"
  /\ Resumable(awaited)
  /\ IF isPaused
     THEN /\ awaited' = waitIfPaused
          /\ pc' = "await2"
          /\ UNCHANGED log
     ELSE BeginItem
  /\ settled' = settled \ {awaited}
  /\ UNCHANGED <<buildType, chunksToUpload, currentUploadManager, i, uploadedChunks, skippedChunks,
                 failedChunks, result, envVars, isPaused, pauseResumePromise,
                 pauseResolve, nextPromise, putLog>>

\* After the second wait the item is processed without another check.
AfterSecondWait ==
  /\ pc = "await2"
  /\ Resumable(awaited)
  /\ BeginItem
  /\ settled' = settled \ {awaited}
  /\ UNCHANGED <<buildType, chunksToUpload, currentUploadManager, i, uploadedChunks, skippedChunks,
                 failedChunks, result, envVars, isPaused, pauseResumePromise,
                 pauseResolve, nextPromise, putLog>>

\* A variant of the catch block that aborts the session.
MutFailItem ==
  /\ failedChunks' = failedChunks + 1
  /\ pc' = "threw"
  /\ result' = [NoResult EXCEPT !.error = "chunk failed"]
  /\ UNCHANGED <<i, uploadedChunks, skippedChunks>>

\* The catch block of the loop body: count the failure, go on.
FailItem ==
  /\ failedChunks' = failedChunks + 1
  /\ i' = i + 1
  /\ pc' = "loop"
  /\ UNCHANGED <<uploadedChunks, skippedChunks, result>>

\* fs.access(chunkPath) completes.
AccessDone ==
  /\ pc = "access"
  /\ LET h == chunksToUpload[i + 1].hash
     IN IF h \in localChunks
        THEN /\ pc' = "exists"
             /\ SetLast("local", "present")
             /\ UNCHANGED <<i, uploadedChunks, skippedChunks, failedChunks,
                            result>>
        ELSE /\ FailItem
             /\ log' = [log EXCEPT ![Len(log)] =
                          [@ EXCEPT !.local = "missing", !.outcome = "failed"]]
  /\ UNCHANGED <<awaited, buildType, chunksToUpload, currentUploadManager, envVars, pauseVars,
                 putLog>>

\* uploadChunk: objectExists(r2Key) completes, with an answer or an error.
ExistsDone ==
  /\ pc = "exists"
  /\ LET key == ChunkKey(buildType, opts.version, chunksToUpload[i + 1].hash)
         there == key \in DOMAIN store
     IN \E answered \in BOOLEAN :
          IF ~answered
          THEN /\ FailItem
               /\ log' = [log EXCEPT ![Len(log)] =
                            [@ EXCEPT !.remote = "error", !.existed = there,
                                      !.outcome = "failed"]]
          ELSE IF ObjectExists(store, key)
          THEN /\ skippedChunks' = skippedChunks + 1
               /\ i' = i + 1
               /\ pc' = "loop"
               /\ log' = [log EXCEPT ![Len(log)] =
                            [@ EXCEPT !.remote = "exists", !.existed = there,
                                      !.outcome = "skipped"]]
               /\ UNCHANGED <<uploadedChunks, failedChunks, result>>
          ELSE /\ pc' = "put"
               /\ log' = [log EXCEPT ![Len(log)] =
                            [@ EXCEPT !.remote = "absent", !.existed = there]]
               /\ UNCHANGED <<i, uploadedChunks, skippedChunks, failedChunks,
                              result>>
  /\ UNCHANGED <<awaited, buildType, chunksToUpload, currentUploadManager, envVars, pauseVars,
                 putLog>>

\* uploadChunk: uploadFile(chunkPath, r2Key) completes: the file is read
\* and one PutObject is sent; either may fail.
PutDone ==
  /\ pc = "put"
  /\ LET h == chunksToUpload[i + 1].hash
         key == ChunkKey(buildType, opts.version, h)
     IN \E outcome \in {"ok", "readError", "sendError"} :
          /\ IF outcome = "readError"
             THEN UNCHANGED putLog
             ELSE putLog' = Append(putLog, [key |-> key, item |-> i,
                                            ok |-> outcome = "ok",
                                            by |-> 0])
          /\ IF outcome = "ok"
             THEN /\ store' = PutObject(store, key, ChunkObject(h))
                  /\ uploadedChunks' = uploadedChunks + 1
                  /\ i' = i + 1
                  /\ pc' = "loop"
                  /\ log' = [log EXCEPT ![Len(log)] =
                               [@ EXCEPT !.puts = @ + 1, !.outcome = "uploaded"]]
                  /\ UNCHANGED <<skippedChunks, failedChunks, result>>
             ELSE /\ FailItem
                  /\ log' = [log EXCEPT ![Len(log)] =
                               [@ EXCEPT !.puts = IF outcome = "sendError"
                                                  THEN @ + 1 ELSE @,
                                         !.outcome = "failed"]]
                  /\ UNCHANGED store
  /\ UNCHANGED <<awaited, buildType, chunksToUpload, currentUploadManager, localChunks,
                 opts, handlerVars, run, prev, promo, pauseVars>>

(***************************************************************************)
(* After the loop: uploadManifest, uploadVersion, return.                  *)
(***************************************************************************)

\* uploadManifest: the manifest read from manifestPath with buildType
\* filled in and every chunk url set to its remote key.
RewriteUrls(m, bt, v) ==
  [m EXCEPT
     !.buildType = IF @ = NoStr THEN bt ELSE @,
     !.files = [k \in 1..Len(m.files) |->
                  [m.files[k] EXCEPT
                     !.chunks = [j \in 1..Len(m.files[k].chunks) |->
                                   [m.files[k].chunks[j] EXCEPT
                                      !.url = ChunkKey(bt, v, m.files[k].chunks[j].hash)]]]]]

\* A variant in which the failure is swallowed and upload() returns.
MutThrow(msg) ==
  /\ pc' = "returned"
  /\ currentUploadManager' = 0
  /\ result' = [success |-> TRUE, error |-> msg, stats |-> Stats]

\* An error leaves upload(): the invocation ends with it, and the catch
\* block of the upload-to-r2 handler clears the session reference.
Throw(msg) ==
  /\ pc' = "threw"
  /\ currentUploadManager' = 0
  /\ result' = [NoResult EXCEPT !.error = msg]

\* uploadBuffer(key, body) as a step of upload(): the put succeeds and the
\* invocation goes to `then', or it fails and upload() throws.
UploadBufferStep(key, body, then) ==
  \E ok \in BOOLEAN :
    /\ putLog' = Append(putLog, [key |-> key, item |-> -1, ok |-> ok,
                                 by |-> 0])
    /\ IF ok
       THEN /\ store' = PutObject(store, key, body)
            /\ pc' = then
            /\ UNCHANGED <<result, currentUploadManager>>
       ELSE /\ Throw("put failed")
            /\ UNCHANGED store

\* uploadManifest: the put of the version-pinned manifest.
ManifestVersionPut ==
  /\ pc = "manifest"
  /\ UploadBufferStep(ManifestKey(buildType, opts.version),
                      ManifestObject(RewriteUrls(opts.newManifest, buildType,
                                                 opts.version)),
                      "latest")
  /\ UNCHANGED <<awaited, buildType, chunksToUpload, i, uploadedChunks,
                 skippedChunks, failedChunks, localChunks, opts, handlerVars, run, prev,
                 promo, pauseVars, log>>

\* uploadManifest: the put of the latest manifest of the build type.
ManifestLatestPut ==
  /\ pc = "latest"
  /\ UploadBufferStep(LatestKey(buildType),
                      ManifestObject(RewriteUrls(opts.newManifest, buildType,
                                                 opts.version)),
                      "version")
  /\ UNCHANGED <<awaited, buildType, chunksToUpload, i, uploadedChunks,
                 skippedChunks, failedChunks, localChunks, opts, handlerVars, run, prev,
                 promo, pauseVars, log>>

\* A variant in which the handler keeps the session reference.
MutReturn ==
  /\ pc' = "returned"
  /\ UNCHANGED currentUploadManager
  /\ result' = [success |-> TRUE, error |-> "none", stats |-> Stats]

\* upload() returns its stats, and the upload-to-r2 handler clears the
\* session reference before it replies.
Return ==
  /\ pc' = "returned"
  /\ currentUploadManager' = 0
  /\ result' = [success |-> TRUE, error |-> "none", stats |-> Stats]

\* version.json is uploaded when fs.access finds it beside the manifest;
\* then upload() returns.
VersionFileStep ==
  /\ pc = "version"
  /\ \E hasVersionFile \in BOOLEAN :
     IF hasVersionFile
     THEN \E ok \in BOOLEAN :
            /\ putLog' = Append(putLog,
                                [key |-> VersionKey(buildType, opts.version),
                                 item |-> -1, ok |-> ok, by |-> 0])
            /\ IF ok
               THEN /\ store' = PutObject(store,
                                          VersionKey(buildType, opts.version),
                                          VersionObject(opts.version))
                    /\ Return
               ELSE /\ Throw("put failed")
                    /\ UNCHANGED store
     ELSE /\ Return
          /\ UNCHANGED <<store, putLog>>
  /\ UNCHANGED <<awaited, buildType, chunksToUpload, i, uploadedChunks,
                 skippedChunks, failedChunks, localChunks, opts, handlerVars, run, prev,
                 promo, pauseVars, log>>

(***************************************************************************)
(* R2Uploader.verifyManifest and R2Uploader.promoteVersion.  Two callers   *)
(* may run promoteVersion concurrently; promo[p] is caller p's call.       *)
(***************************************************************************)

Promoters == {1, 2}

IdlePromo ==
  [pc |-> "idle", version |-> NoStr, buildType |-> NoStr,
   manifest |-> NoManifest, allChunks |-> <<>>, k |-> 0,
   existingChunks |-> <<>>, missingChunks |-> <<>>, error |-> "none",
   before |-> EmptyStore, progress |-> <<>>]

\* A percentage handed to onProgress, as the fraction <<num, den>>.
Pct(n) == <<n, 1>>

\* promoteVersion maps the percentage of verifyManifest into 10..80:
\* 10 + percentage * 0.7, for the percentage (done / total) * 100.
MappedProgress(done, total) == <<10 * total + 70 * done, total>>

\* The catch block of promoteVersion: onProgress({ percentage: 0, ... }).
CatchProgress(progress) == <<Pct(0)>>

\* promoteVersion with a local manifest: "manifest.version = version" when
\* they differ.
WithVersion(m, v) == [m EXCEPT !.version = v]

\* A variant of allChunksExist that ignores the missing chunks.
MutAllChunksExist(missingChunks) == TRUE

\* verifyManifest: results.allChunksExist
AllChunksExist(missingChunks) == Len(missingChunks) = 0

\* A variant of the publication that rewrites the version-pinned manifest
\* as well.
MutPromoteWrites(bt, v, m) ==
  <<<<ManifestKey(bt, v),
      ManifestObject(RewriteUrls([m EXCEPT !.buildType = bt], bt, v))>>,
    <<LatestKey(bt),
      ManifestObject(RewriteUrls([m EXCEPT !.buildType = bt], bt, v))>>>>

\* promoteVersion: the writes of a call whose verification passed, in
\* order, each <<key, body>>.
PromoteWrites(bt, v, m) ==
  <<<<LatestKey(bt),
      ManifestObject(RewriteUrls([m EXCEPT !.buildType = bt], bt, v))>>>>

PromoteFail(p, msg) ==
  promo' = [promo EXCEPT ![p].pc = "failed", ![p].error = msg,
                         ![p].progress = @ \o CatchProgress(@)]

\* After the manifest is known: verifyManifest starts (getAllChunks), or,
\* with no chunk to check, has already returned.
PromoteVerifyFrom(p, rec, m) ==
  IF GetAllChunksThrows(m)
  THEN promo' = [promo EXCEPT ![p] =
                   [rec EXCEPT !.pc = "failed",
                               !.error = "not iterable",
                               !.progress = (@ \o <<Pct(10)>>)
                                            \o CatchProgress(@ \o <<Pct(10)>>)]]
  ELSE LET n == Len(getAllChunks(m))
       IN promo' = [promo EXCEPT ![p] =
                   [rec EXCEPT !.manifest = m,
                               !.allChunks = getAllChunks(m),
                               !.k = 0,
                               !.pc = IF n = 0 THEN "put" ELSE "verify",
                               !.progress =
                                 IF n = 0
                                 THEN @ \o <<Pct(10), MappedProgress(0, 1),
                                             MappedProgress(1, 1), Pct(80),
                                             Pct(90)>>
                                 ELSE @ \o <<Pct(10), MappedProgress(0, 1),
                                             MappedProgress(1, n)>>]]

\* promoteVersion(version, buildType, onProgress, localManifest) is called.
PromoteStart(p) ==
  /\ promo[p].pc = "idle"
  /\ \E v \in {"v1", "v2"}, useLocal \in BOOLEAN :
       LET rec == [IdlePromo EXCEPT !.version = v,
                                    !.buildType = "production",
                                    !.before = store,
                                    !.progress = <<Pct(0)>>]
       IN IF useLocal
          THEN PromoteVerifyFrom(p, rec,
                                 WithVersion(ManifestB(FALSE, "production"), v))
          ELSE promo' = [promo EXCEPT ![p] = [rec EXCEPT !.pc = "fetch"]]
  /\ UNCHANGED <<store, localChunks, opts, handlerVars, run, prev, pauseVars, loopVars,
                 histVars>>

\* getManifest(version, buildType) completes: the object, a 404, or
\* another error.
PromoteFetchDone(p) ==
  /\ promo[p].pc = "fetch"
  /\ LET key == ManifestKey(promo[p].buildType, promo[p].version)
     IN \E answered \in BOOLEAN :
          IF ~answered THEN PromoteFail(p, "Failed to get manifest")
          ELSE IF ~ObjectExists(store, key)
          THEN PromoteFail(p, "Manifest not found")
          ELSE PromoteVerifyFrom(p, promo[p], store[key].manifest)
  /\ UNCHANGED <<store, localChunks, opts, handlerVars, run, prev, pauseVars, loopVars,
                 histVars>>

\* verifyManifest: objectExists for chunk k completes; after the last
\* chunk promoteVersion throws when a chunk is missing.
PromoteVerifyStep(p) ==
  /\ promo[p].pc = "verify"
  /\ LET c == promo[p].allChunks[promo[p].k + 1]
         key == ChunkKey(promo[p].buildType, promo[p].manifest.version, c.hash)
         last == promo[p].k + 1 = Len(promo[p].allChunks)
     IN \E answered \in BOOLEAN :
          IF ~answered THEN PromoteFail(p, "existence check failed")
          ELSE LET existing == IF ObjectExists(store, key)
                               THEN Append(promo[p].existingChunks, key)
                               ELSE promo[p].existingChunks
                   missing == IF ObjectExists(store, key)
                              THEN promo[p].missingChunks
                              ELSE Append(promo[p].missingChunks, key)
                   n == Len(promo[p].allChunks)
                   k == promo[p].k
                   \* the event after the check of chunk k, then the one
                   \* before the next check or the one after the loop
                   seen == promo[p].progress
                             \o <<MappedProgress(k + 1, n)>>
                             \o (IF ~last THEN <<MappedProgress(k + 2, n)>>
                                 ELSE <<MappedProgress(1, 1)>>)
               IN promo' = [promo EXCEPT
                    ![p].existingChunks = existing,
                    ![p].missingChunks = missing,
                    ![p].k = @ + 1,
                    ![p].pc = IF ~last THEN "verify"
                              ELSE IF AllChunksExist(missing) THEN "put"
                              ELSE "failed",
                    ![p].error = IF last /\ ~AllChunksExist(missing)
                                 THEN "chunks are missing" ELSE @,
                    ![p].progress =
                      IF ~last THEN seen
                      ELSE IF AllChunksExist(missing)
                      THEN seen \o <<Pct(80), Pct(90)>>
                      ELSE seen \o CatchProgress(seen)]
  /\ UNCHANGED <<store, localChunks, opts, handlerVars, run, prev, pauseVars, loopVars,
                 histVars>>

RECURSIVE ApplyWrites(_, _)
ApplyWrites(s, ws) ==
  IF ws = <<>> THEN s
  ELSE ApplyWrites(PutObject(s, Head(ws)[1], Head(ws)[2]), Tail(ws))

\* promoteVersion: the manifest is rewritten and put as the latest one.
PromotePutDone(p) ==
  /\ promo[p].pc = "put"
  /\ LET ws == PromoteWrites(promo[p].buildType, promo[p].version,
                             promo[p].manifest)
     IN \E ok \in BOOLEAN :
          /\ putLog' = putLog \o [n \in 1..Len(ws) |->
                                    [key |-> ws[n][1], item |-> -1,
                                     ok |-> ok, by |-> p]]
          /\ IF ok
             THEN /\ store' = ApplyWrites(store, ws)
                  /\ promo' = [promo EXCEPT
                                ![p].pc = "done",
                                ![p].progress = @ \o <<Pct(100), Pct(100)>>]
             ELSE /\ PromoteFail(p, "put failed")
                  /\ UNCHANGED store
  /\ UNCHANGED <<localChunks, opts, handlerVars, run, prev, pauseVars, loopVars, log>>

(***************************************************************************)
(* The upload session as a system.                                         *)
(***************************************************************************)

\* No detect-delta call has been made.
NoDeltaCall ==
  /\ deltaOld = NoManifest
  /\ deltaNew = NoManifest
  /\ delta = NoDelta("not called")

\* No verify-upload call has been made.
IdleVerify ==
  [pc |-> "idle", input |-> NoManifest, buildType |-> NoStr,
   allChunks |-> <<>>, k |-> 0, existingChunks |-> <<>>,
   missingChunks |-> <<>>, allChunksExist |-> FALSE, error |-> "none",
   before |-> EmptyStore]

(***************************************************************************)
(* R2Uploader.listVersions.  The listing of {buildType}/ with Delimiter    *)
(* '/' is a sequence of pages of common prefixes (version folders); a      *)
(* response that is not the last page carries a NextContinuationToken,     *)
(* the number of the next page.                                            *)
(***************************************************************************)

\* The order of b.localeCompare(a) on the version folders explored.
VersionRank(v) == IF v = "v1" THEN 1 ELSE IF v = "v2" THEN 2 ELSE 3

\* Array.from(versions).sort(...): newest first.
RECURSIVE SortedVersions(_)
SortedVersions(vs) ==
  IF vs = {} THEN <<>>
  ELSE LET top == CHOOSE v \in vs : \A w \in vs : VersionRank(w) <= VersionRank(v)
       IN <<top>> \o SortedVersions(vs \ {top})

\* A listVersions call on a bucket with these pages, these versions
\* having a manifest.json, and this version in the latest manifest
\* (NoStr: no latest manifest).
NewListing(pages, withManifest, latest) ==
  [pc |-> "idle", pages |-> pages, withManifest |-> withManifest,
   latest |-> latest, continuationToken |-> 0, page |-> <<>>, k |-> 0,
   nextToken |-> 0, versions |-> {}, sortedVersions |-> <<>>,
   currentVersion |-> NoStr, error |-> NoStr]

\* The ContinuationToken of the ListObjectsV2Command: the command is built
\* from Bucket, Prefix and Delimiter only, whatever the token held.
RequestToken(continuationToken) == 0

\* The page the store answers a request with: the first one for a request
\* without token.
PageNumber(token) == IF token = 0 THEN 1 ELSE token

\* No listVersions call.
IdleListing == NewListing(<<<<>>>>, {}, NoStr)

\* listVersions(buildType): the call begins.
ListVersions ==
  /\ listing.pc = "idle"
  /\ listing' = [listing EXCEPT !.pc = "request"]

\* await this.client.send(listCommand): a page, or an error, which the
\* outer catch rethrows as 'Failed to list versions'.
ListSend ==
  /\ listing.pc = "request"
  /\ \E ok \in BOOLEAN :
       LET n == PageNumber(RequestToken(listing.continuationToken))
       IN listing' =
            IF ok
            THEN [listing EXCEPT
                    !.pc = "prefixes", !.page = listing.pages[n], !.k = 0,
                    !.nextToken = IF n < Len(listing.pages) THEN n + 1 ELSE 0]
            ELSE [listing EXCEPT !.pc = "failed",
                                 !.error = "Failed to list versions"]

\* One common prefix of the page: objectExists of its manifest.json, the
\* version added when it exists; an error of the request other than 404
\* ends the call.
ListPrefix ==
  /\ listing.pc = "prefixes"
  /\ listing.k < Len(listing.page)
  /\ \E ok \in BOOLEAN :
       LET version == listing.page[listing.k + 1]
       IN listing' =
            IF ok
            THEN [listing EXCEPT
                    !.k = @ + 1,
                    !.versions = IF version \in listing.withManifest
                                 THEN @ \cup {version} ELSE @]
            ELSE [listing EXCEPT !.pc = "failed",
                                 !.error = "Failed to list versions"]

\* The end of one turn of the do-while: continuationToken =
\* response.NextContinuationToken; while (continuationToken).
ListLoop ==
  /\ listing.pc = "prefixes"
  /\ listing.k = Len(listing.page)
  /\ listing' = [listing EXCEPT
                   !.continuationToken = listing.nextToken,
                   !.pc = IF listing.nextToken # 0 THEN "request"
                          ELSE "current"]

\* After the loop: the sort, the version of the latest manifest if it
\* can be read, and the return.
ListReturn ==
  /\ listing.pc = "current"
  /\ \E readable \in BOOLEAN :
       listing' = [listing EXCEPT
                     !.pc = "returned",
                     !.sortedVersions = SortedVersions(listing.versions),
                     !.currentVersion = IF readable THEN listing.latest
                                        ELSE NoStr]

\* No upload-to-r2 invocations side by side.
NoSessions == <<>>

NoCalls ==
  /\ sessions = NoSessions
  /\ listing = IdleListing

\* No upload() invocation yet.

NoSession ==
  /\ run = 0
  /\ prev = NoResult
  /\ isPaused = FALSE
  /\ pauseResumePromise = 0
  /\ pauseResolve = 0
  /\ settled = {}
  /\ nextPromise = 1
  /\ currentUploadManager = 0
  /\ pc = "idle"
  /\ awaited = 0
  /\ buildType = "production"
  /\ chunksToUpload = <<>>
  /\ i = 0
  /\ uploadedChunks = 0
  /\ skippedChunks = 0
  /\ failedChunks = 0
  /\ result = NoResult
  /\ log = <<>>
  /\ putLog = <<>>

Init ==
  /\ opts \in UploadOptions
  /\ store = StoreAfterUploadOf(opts.oldManifest)
  /\ localChunks \in LocalStores
  /\ promo = [p \in Promoters |-> IdlePromo]
  /\ NoSession
  /\ NoDeltaCall
  /\ verify = IdleVerify
  /\ NoPackaging
  /\ NoCalls

\* The steps of one upload() invocation.
UploadStep ==
  \/ LoopHead
  \/ AfterFirstWait
  \/ AfterSecondWait
  \/ AccessDone
  \/ ExistsDone
  \/ PutDone
  \/ ManifestVersionPut
  \/ ManifestLatestPut
  \/ VersionFileStep

Next ==
  \/ StartUpload
  \/ PauseUpload
  \/ ResumeUpload
  \/ LoopHead
  \/ AfterFirstWait
  \/ AfterSecondWait
  \/ AccessDone
  \/ ExistsDone
  \/ PutDone
  \/ ManifestVersionPut
  \/ ManifestLatestPut
  \/ VersionFileStep

Spec == Init /\ [][Next]_vars

\* The event loop runs every continuation that is ready.
FairSpec == Spec /\ WF_vars(UploadStep)

(***************************************************************************)
(* Promotion as a system: promoteVersion calls against a bucket that       *)
(* earlier uploads left behind.                                            *)
(***************************************************************************)

\* The bucket after upload() of manifest m as version v of build type bt
\* in which the puts of the chunks in `failed' failed: upload() still
\* publishes both manifests and the version descriptor.
AfterUpload(s, m, bt, v, failed) ==
  LET chunks == SelectSeq(getAllChunks(m), LAMBDA c : c.hash \notin failed)
      withChunks == PutChunks(s, bt, v, chunks)
      published == ManifestObject(RewriteUrls(m, bt, v))
  IN PutObject(PutObject(PutObject(withChunks, ManifestKey(bt, v), published),
                         LatestKey(bt), published),
               VersionKey(bt, v), VersionObject(v))

StoreV1 ==
  AfterUpload(EmptyStore, ManifestA(FALSE, "production"), "production", "v1", {})

\* Version 1 uploaded, then its manifest file uploaded again as version
\* v2 (uploadManifest leaves manifest.version as it is) with the put of
\* one chunk failing.
StoreV1AsV2 ==
  AfterUpload(StoreV1, ManifestA(FALSE, "production"), "production", "v2", {H2})

PromoteStores ==
  {StoreV1,
   AfterUpload(StoreV1, ManifestB(FALSE, "production"), "production", "v2", {}),
   AfterUpload(StoreV1, ManifestB(FALSE, "production"), "production", "v2", {H3}),
   StoreV1AsV2}

PromoteInit ==
  /\ store \in PromoteStores
  /\ opts = Options(NoManifest, NoManifest, "full")
  /\ localChunks = {}
  /\ promo = [p \in Promoters |-> IdlePromo]
  /\ NoSession
  /\ NoDeltaCall
  /\ verify = IdleVerify
  /\ NoPackaging
  /\ NoCalls

PromoteNext ==
  \/ \E p \in Promoters : PromoteStart(p)
  \/ \E p \in Promoters : PromoteFetchDone(p)
  \/ \E p \in Promoters : PromoteVerifyStep(p)
  \/ \E p \in Promoters : PromotePutDone(p)

PromoteSpec == PromoteInit /\ [][PromoteNext]_vars

(***************************************************************************)
(* Delta detection as a system: the detect-delta handler applied to a pair *)
(* of manifest files.                                                      *)
(***************************************************************************)

\* Chunks per file in the generated new manifests.
MaxChunksPerFile == 2

\* The chunk lists a packaged file may have, the empty file included.
ChunkLists == UNION {[1..n -> Hashes] : n \in 0..MaxChunksPerFile}

\* Version 1 with both chunks of a.bin in the other order and a file made
\* of one chunk twice.
ManifestE(withUrl, bt) ==
  createChunkManifest("v1", bt,
    <<FileEntry("a.bin", <<H2, H1>>, withUrl, bt, "v1"),
      FileEntry("b.bin", <<H4, H4>>, withUrl, bt, "v1")>>)

\* Version 1 of a.bin with a totalSize that is not the sum of its chunk
\* sizes (validation only warns about it).
ManifestF(withUrl, bt) ==
  createChunkManifest("v1", bt,
    <<[FileEntry("a.bin", <<H1, H2>>, withUrl, bt, "v1")
         EXCEPT !.totalSize = 99]>>)

\* Old manifests: version 1 of either build type, a version sharing a
\* chunk between files, one with a stale totalSize, and a legacy flat
\* manifest.
DeltaOldManifests ==
  {ManifestA(u, bt) : u \in BOOLEAN, bt \in {"production", "staging"}}
    \cup {ManifestF(u, "production") : u \in BOOLEAN}
    \cup {ManifestC(u, "production") : u \in BOOLEAN}
    \cup {ManifestE(u, "production") : u \in BOOLEAN}
    \cup {LegacyManifest("v1", "production", <<"a.bin">>)}

\* New manifests: version 2 with any of a.bin and b.bin, each with any
\* chunk list, as generateManifest writes them (no url) or with urls;
\* and a legacy flat manifest.
DeltaNewManifests ==
  {createChunkManifest("v2", "production",
     (IF hasA THEN <<FileEntry("a.bin", ca, u, "production", "v2")>>
      ELSE <<>>)
     \o (IF hasB THEN <<FileEntry("b.bin", cb, u, "production", "v2")>>
         ELSE <<>>)) :
     hasA \in BOOLEAN, hasB \in BOOLEAN, ca \in ChunkLists, cb \in ChunkLists,
     u \in BOOLEAN}
    \cup {LegacyManifest("v2", "production", <<"a.bin">>)}

\* The detect-delta handler: both files are read and detectDelta is
\* applied to them; its result, or the error it throws, is the reply.
DetectDelta ==
  /\ delta.error = "not called"
  /\ delta' = detectDelta(deltaOld, deltaNew)
  /\ UNCHANGED <<deltaOld, deltaNew, verify, packVars, callVars, store, localChunks,
                 opts, run, prev, promo, pauseVars, loopVars, histVars>>

DeltaInit ==
  /\ deltaOld \in DeltaOldManifests
  /\ deltaNew \in DeltaNewManifests
  /\ delta = NoDelta("not called")
  /\ store = EmptyStore
  /\ opts = Options(NoManifest, NoManifest, "full")
  /\ localChunks = {}
  /\ promo = [p \in Promoters |-> IdlePromo]
  /\ NoSession
  /\ verify = IdleVerify
  /\ NoPackaging
  /\ NoCalls

DeltaNext == DetectDelta

DeltaSpec == DeltaInit /\ [][DeltaNext]_vars

(***************************************************************************)
(* Verification as a system: the verify-upload handler applied to a local  *)
(* manifest file and a bucket that earlier uploads left behind.            *)
(***************************************************************************)

\* Fields lacking in one manifest file offered to verify-upload.
MaxDamages == 2

\* What a manifest file may lack, as <<field, file, chunk>>: its version,
\* its files array, a file's name or chunks array, a chunk's hash, size,
\* offset or url; and a totalSize that is not the sum of the chunk sizes.
DamagesOf(m) ==
  {<<"version", 0, 0>>, <<"files", 0, 0>>}
    \cup {<<k, f, 0>> : k \in {"filename", "chunks", "totalSize"},
                        f \in 1..Len(m.files)}
    \cup UNION {{<<k, f, c>> : k \in {"hash", "size", "offset", "url"},
                               c \in 1..Len(m.files[f].chunks)} :
                f \in 1..Len(m.files)}

\* The manifest m with the fields of ds lacking.
Damaged(m, ds) ==
  [version |-> IF <<"version", 0, 0>> \in ds THEN NoStr ELSE m.version,
   buildType |-> m.buildType,
   manifestType |-> m.manifestType,
   hasFiles |-> <<"files", 0, 0>> \notin ds,
   files |->
     IF <<"files", 0, 0>> \in ds THEN <<>>
     ELSE [f \in 1..Len(m.files) |->
       [filename |-> IF <<"filename", f, 0>> \in ds THEN NoStr
                     ELSE m.files[f].filename,
        path |-> m.files[f].path,
        url |-> m.files[f].url,
        totalSize |-> IF <<"totalSize", f, 0>> \in ds THEN 99
                      ELSE m.files[f].totalSize,
        hasChunks |-> <<"chunks", f, 0>> \notin ds,
        chunks |->
          IF <<"chunks", f, 0>> \in ds THEN <<>>
          ELSE [c \in 1..Len(m.files[f].chunks) |->
            [hash |-> IF <<"hash", f, c>> \in ds THEN NoHash
                      ELSE m.files[f].chunks[c].hash,
             size |-> IF <<"size", f, c>> \in ds THEN NoNum
                      ELSE m.files[f].chunks[c].size,
             offset |-> IF <<"offset", f, c>> \in ds THEN NoNum
                        ELSE m.files[f].chunks[c].offset,
             url |-> IF <<"url", f, c>> \in ds THEN NoUrl
                     ELSE m.files[f].chunks[c].url]]]]]

\* The published version 2 manifest with up to MaxDamages fields lacking.
DamagedManifests ==
  {Damaged(ManifestB(TRUE, "production"), ds) :
     ds \in {x \in SUBSET DamagesOf(ManifestB(TRUE, "production")) :
               Cardinality(x) <= MaxDamages}}

\* The manifest files offered to verify-upload: freshly generated (no
\* url), published (with urls), one without buildType, a legacy one,
\* and malformed ones.
VerifyManifests ==
  {ManifestA(FALSE, "production"), ManifestA(TRUE, "production"),
   ManifestB(FALSE, "production"), ManifestB(TRUE, "production"),
   ManifestC(TRUE, "production"),
   [ManifestB(TRUE, "production") EXCEPT !.buildType = NoStr],
   LegacyManifest("v1", "production", <<"a.bin">>)}
    \cup DamagedManifests

VerifyStores == PromoteStores \cup {EmptyStore}

\* A variant of the bookkeeping that counts every chunk as existing.
MutVerifyRecord(rec, c, key, exists) ==
  [rec EXCEPT !.existingChunks =
                Append(@, [hash |-> c.hash, size |-> c.size, key |-> key]),
              !.k = @ + 1]

\* verifyManifest: the chunk goes to existingChunks or to missingChunks.
VerifyRecord(rec, c, key, exists) ==
  IF exists
  THEN [rec EXCEPT !.existingChunks =
                     Append(@, [hash |-> c.hash, size |-> c.size, key |-> key]),
                   !.k = @ + 1]
  ELSE [rec EXCEPT !.missingChunks =
                     Append(@, [hash |-> c.hash, size |-> c.size, key |-> key]),
                   !.k = @ + 1]

\* verifyManifest after its loop: verificationComplete, allChunksExist.
VerifyFinish(rec) ==
  IF rec.k = Len(rec.allChunks)
  THEN [rec EXCEPT !.pc = "done",
                   !.allChunksExist = AllChunksExist(rec.missingChunks)]
  ELSE rec

\* verify-upload: the manifest file is read and handed to parseManifest
\* (whose only parameter is the manifest: the handler's second argument
\* is dropped), then verifyManifest starts with getAllChunks.
VerifyStartOf(m) ==
  /\ verify.pc = "idle"
  /\ LET rec == [IdleVerify EXCEPT !.input = m, !.before = store]
     IN IF parseManifest(m).error # "ok"
        THEN verify' = [rec EXCEPT !.pc = "failed",
                                   !.error = parseManifest(m).error]
        ELSE IF GetAllChunksThrows(m)
        THEN verify' = [rec EXCEPT !.pc = "failed", !.error = "not iterable"]
        ELSE verify' = VerifyFinish(
               [rec EXCEPT !.pc = "checking",
                           !.buildType = IF m.buildType # NoStr
                                         THEN m.buildType ELSE "production",
                           !.allChunks = getAllChunks(m)])
  /\ UNCHANGED <<deltaVars, packVars, callVars, store, localChunks, opts, run, prev,
                 promo, pauseVars, loopVars, histVars>>

VerifyStart == \E m \in VerifyManifests : VerifyStartOf(m)

\* verifyManifest: objectExists for chunk k completes (or throws).
VerifyStep ==
  /\ verify.pc = "checking"
  /\ LET c == verify.allChunks[verify.k + 1]
         key == ChunkKey(verify.buildType, verify.input.version, c.hash)
     IN \E answered \in BOOLEAN :
          IF ~answered
          THEN verify' = [verify EXCEPT !.pc = "failed",
                                        !.error = "existence check failed"]
          ELSE verify' = VerifyFinish(
                 VerifyRecord(verify, c, key, ObjectExists(store, key)))
  /\ UNCHANGED <<deltaVars, packVars, callVars, store, localChunks, opts, run, prev,
                 promo, pauseVars, loopVars, histVars>>

VerifyInit ==
  /\ store \in VerifyStores
  /\ opts = Options(NoManifest, NoManifest, "full")
  /\ localChunks = {}
  /\ promo = [p \in Promoters |-> IdlePromo]
  /\ NoSession
  /\ NoDeltaCall
  /\ verify = IdleVerify
  /\ NoPackaging
  /\ NoCalls

VerifyNext ==
  \/ VerifyStart
  \/ VerifyStep

VerifySpec == VerifyInit /\ [][VerifyNext]_vars

(***************************************************************************)
(* The chunker as a system: one FastCDC instance chunks buffers.           *)
(***************************************************************************)

\* chunkBuffer / chunkFile calls made on one instance.
MaxCalls == 3

\* Nothing is uploaded, compared, verified or promoted.
NoRemoteActivity ==
  /\ store = EmptyStore
  /\ opts = Options(NoManifest, NoManifest, "full")
  /\ localChunks = {}
  /\ promo = [p \in Promoters |-> IdlePromo]
  /\ NoSession
  /\ NoDeltaCall
  /\ verify = IdleVerify
  /\ NoCalls

\* chunkBuffer(buffer) / chunkFile(filePath) on the instance.
ChunkBuffer ==
  /\ fastCDC.calls < MaxCalls
  /\ \E buffer \in Buffers :
       LET call == [made |-> TRUE, input |-> buffer,
                    chunks |-> chunkBuffer(fastCDC.config, buffer,
                                           fastCDC.calls)]
       IN fastCDC' = [fastCDC EXCEPT
                        !.calls = @ + 1,
                        !.firstCall = IF fastCDC.calls = 0 THEN call ELSE @,
                        !.lastCall = call]
  /\ UNCHANGED <<chunkCache, cacheCall, recon, pack, deltaVars, verify,
                 callVars, store, localChunks, opts, run, prev, promo, pauseVars, loopVars,
                 histVars>>

ChunkInit ==
  /\ fastCDC \in {NewFastCDC(cfg) : cfg \in Configs}
  /\ chunkCache = EmptyCache
  /\ cacheCall = NoCacheCall
  /\ recon = IdleRecon
  /\ pack = IdlePack
  /\ NoRemoteActivity

ChunkNext == ChunkBuffer

ChunkSpec == ChunkInit /\ [][ChunkNext]_vars

(***************************************************************************)
(* The chunk cache as a system: storeChunk and getChunk calls with right   *)
(* and wrong content.                                                      *)
(***************************************************************************)

CacheDatas == {<<0>>, <<1>>, <<0, 1>>}
CacheHashes == {Sha256(d) : d \in CacheDatas}

CacheInit ==
  /\ fastCDC = NewFastCDC(DefaultConfig)
  /\ chunkCache = EmptyCache
  /\ cacheCall = NoCacheCall
  /\ recon = IdleRecon
  /\ pack = IdlePack
  /\ NoRemoteActivity

CacheNext ==
  \/ /\ \E h \in CacheHashes, d \in CacheDatas : StoreChunk(h, d)
     /\ UNCHANGED <<pack, deltaVars, verify, callVars, store, localChunks, opts, run, prev,
                    promo, pauseVars, loopVars, histVars>>
  \/ /\ \E h \in CacheHashes : GetChunk(h)
     /\ UNCHANGED <<deltaVars, verify, callVars, store, localChunks, opts, run, prev,
                    promo, pauseVars, loopVars, histVars>>

CacheSpec == CacheInit /\ [][CacheNext]_vars

(***************************************************************************)
(* Reconstruction as a system: a file was chunked and its chunks stored;   *)
(* reconstructFile is called with the chunks in some order.                *)
(***************************************************************************)

\* Sizes that cut the buffers explored into up to MaxLen chunks.
ReconConfig == [minSize |-> 1, avgSize |-> 2, maxSize |-> 2]

RECURSIVE StoreAll(_, _)
StoreAll(cache, chunks) ==
  IF chunks = <<>> THEN cache
  ELSE StoreAll(WriteFile(cache, getChunkPath(Head(chunks).hash),
                          Head(chunks).data),
                Tail(chunks))

ReconInit ==
  /\ fastCDC \in {[NewFastCDC(ReconConfig) EXCEPT
                     !.calls = 1,
                     !.firstCall = [made |-> TRUE, input |-> b,
                                    chunks |-> chunkBuffer(ReconConfig, b, 0)],
                     !.lastCall = [made |-> TRUE, input |-> b,
                                   chunks |-> chunkBuffer(ReconConfig, b, 0)]] :
                   b \in Buffers}
  /\ chunkCache \in
       {StoreAll(EmptyCache, fastCDC.lastCall.chunks)}
         \cup (IF fastCDC.lastCall.chunks = <<>> THEN {}
               ELSE {StoreAll(EmptyCache, Tail(fastCDC.lastCall.chunks))})
  /\ cacheCall = NoCacheCall
  /\ recon = IdleRecon
  /\ pack = IdlePack
  /\ NoRemoteActivity

ReconNext ==
  \/ /\ \E f \in ChunkOrders(Len(fastCDC.lastCall.chunks)),
           withData \in BOOLEAN :
          ReconstructStart(fastCDC.lastCall.input,
                           [k \in 1..Len(fastCDC.lastCall.chunks) |->
                              ChunkEntry(fastCDC.lastCall.chunks[f[k]],
                                         withData)])
     /\ UNCHANGED <<deltaVars, verify, callVars, store, localChunks, opts, run, prev,
                    promo, pauseVars, loopVars, histVars>>
  \/ /\ \/ ReconstructBatch
        \/ ReconstructRead
        \/ ReconstructWrite
        \/ ReconstructFinish
     /\ UNCHANGED <<deltaVars, verify, callVars, store, localChunks, opts, run, prev,
                    promo, pauseVars, loopVars, histVars>>

ReconSpec == ReconInit /\ [][ReconNext]_vars

(***************************************************************************)
(* The upload-to-r2, pause-upload and resume-upload handlers with several  *)
(* upload-to-r2 invocations side by side.  Each invocation creates its own *)
(* UploadManager; an upload is the items it has left and its isPaused      *)
(* flag; currentUploadManager is the number of the instance the module     *)
(* variable refers to, 0 for null.                                         *)
(***************************************************************************)

\* upload-to-r2 invocations in one execution, and the worklist items of
\* each.
MaxSessions == 2
MaxItems == 3

\* A variant of upload-to-r2 that does not keep the new instance.
MutNewReference(n) == 0

\* currentUploadManager = new UploadManager(config)
NewReference(n) == n

\* upload-to-r2 up to the first await of upload().  `alone' is history:
\* no other invocation was in flight when this one began.
UploadToR2 ==
  /\ Len(sessions) < MaxSessions
  /\ \E items \in 0..MaxItems :
       sessions' =
         Append(sessions,
                [state |-> "inflight", isPaused |-> FALSE, left |-> items,
                 alone |-> \A n \in 1..Len(sessions) :
                             sessions[n].state = "done"])
  /\ currentUploadManager' = NewReference(Len(sessions) + 1)

\* One worklist item of session n, past its waitIfPaused.
SessionItem(n) ==
  /\ sessions[n].state = "inflight"
  /\ ~sessions[n].isPaused
  /\ sessions[n].left > 0
  /\ sessions' = [sessions EXCEPT ![n].left = @ - 1]
  /\ UNCHANGED currentUploadManager

\* upload() of session n returns or throws after its loop, and the
\* handler clears the module variable: currentUploadManager = null.
SessionDone(n) ==
  /\ sessions[n].state = "inflight"
  /\ sessions[n].left = 0
  /\ sessions' = [sessions EXCEPT ![n].state = "done"]
  /\ currentUploadManager' = 0

\* pause-upload: if (currentUploadManager) currentUploadManager.pause()
SessionPause ==
  /\ currentUploadManager # 0
  /\ sessions' = [sessions EXCEPT ![currentUploadManager].isPaused = TRUE]
  /\ UNCHANGED currentUploadManager

\* resume-upload: if (currentUploadManager) currentUploadManager.resume()
SessionResume ==
  /\ currentUploadManager # 0
  /\ sessions' = [sessions EXCEPT ![currentUploadManager].isPaused = FALSE]
  /\ UNCHANGED currentUploadManager

SessionInit ==
  /\ NoPackaging
  /\ NoRemoteActivity

SessionStep ==
  \/ UploadToR2
  \/ \E n \in 1..Len(sessions) : SessionItem(n)
  \/ \E n \in 1..Len(sessions) : SessionDone(n)
  \/ SessionPause
  \/ SessionResume

SessionNext ==
  /\ SessionStep
  /\ UNCHANGED <<store, localChunks, opts, deltaVars, verify, packVars,
                 listing, run, prev, promo, pauseVars, pc, awaited,
                 buildType, chunksToUpload, i, uploadedChunks, skippedChunks,
                 failedChunks, result, histVars>>

SessionSpec == SessionInit /\ [][SessionNext]_vars

(***************************************************************************)
(* listVersions as a system: one call against a bucket whose listing has   *)
(* one page or more.                                                       *)
(***************************************************************************)

\* The pages of a listing: at most this many.
MaxPages == 2

\* Page k of a listing of n pages: the first page holds up to two version
\* folders, every further page one.
ListPages ==
  UNION {[1..n -> {<<>>, <<"v1">>, <<"v1", "v2">>, <<"v3">>}] :
           n \in 1..MaxPages}

ListInit ==
  /\ listing \in {NewListing(pages, withManifest, latest) :
                    pages \in ListPages,
                    withManifest \in SUBSET {"v1", "v3"},
                    latest \in {NoStr, "v1"}}
  /\ sessions = NoSessions
  /\ store = EmptyStore
  /\ opts = Options(NoManifest, NoManifest, "full")
  /\ localChunks = {}
  /\ promo = [p \in Promoters |-> IdlePromo]
  /\ NoSession
  /\ NoDeltaCall
  /\ verify = IdleVerify
  /\ NoPackaging

ListStep ==
  \/ ListVersions
  \/ ListSend
  \/ ListPrefix
  \/ ListLoop
  \/ ListReturn

ListNext ==
  /\ ListStep
  /\ UNCHANGED <<store, localChunks, opts, deltaVars, verify, packVars,
                 sessions, run, prev, promo, pauseVars, loopVars, histVars>>

ListSpec == ListInit /\ [][ListNext]_vars

\* The call is scheduled as long as it has a step to take.
FairListSpec == ListSpec /\ WF_vars(ListNext)

(***************************************************************************)
(* The mask and the rolling hash as a system: FastCDC instances of every   *)
(* magnitude of avgSize, each fed bytes one by one.                        *)
(***************************************************************************)

\* avgSize = mantissa * 2^exponent, up to 3 * 2^MaxExponent.
MaxExponent == 33
AvgSizes == {BigSize(m, e) : m \in 1..3, e \in 0..MaxExponent}

\* hash = this.updateHash(hash, byte) in a scan.
UpdateHash ==
  /\ fastCDC.fed < MaxLen
  /\ \E byte \in Bytes :
       fastCDC' = [fastCDC EXCEPT !.hash = updateHash(@, byte),
                                  !.fed = @ + 1]
  /\ UNCHANGED <<chunkCache, cacheCall, recon, pack, deltaVars, verify,
                 callVars, store, localChunks, opts, run, prev, promo,
                 pauseVars, loopVars, histVars>>

\* new FastCDC({avgSize: size}) in place of the instance of the defaults.
NewInstance ==
  /\ fastCDC = NewFastCDC(DefaultConfig)
  /\ \E size \in AvgSizes : fastCDC' = NewFastCDCOfSize(size)
  /\ UNCHANGED <<chunkCache, cacheCall, recon, pack, deltaVars, verify,
                 callVars, store, localChunks, opts, run, prev, promo,
                 pauseVars, loopVars, histVars>>

MaskInit ==
  /\ fastCDC = NewFastCDC(DefaultConfig)
  /\ chunkCache = EmptyCache
  /\ cacheCall = NoCacheCall
  /\ recon = IdleRecon
  /\ pack = IdlePack
  /\ NoRemoteActivity

MaskNext ==
  \/ NewInstance
  \/ UpdateHash

MaskSpec == MaskInit /\ [][MaskNext]_vars

(***************************************************************************)
(* Packaging as a system: one generateManifest pass over a source          *)
(* directory into an empty output directory.                               *)
(***************************************************************************)

PackInit ==
  /\ fastCDC = NewFastCDC(DefaultConfig)
  /\ chunkCache = EmptyCache
  /\ cacheCall = NoCacheCall
  /\ recon = IdleRecon
  /\ pack = IdlePack
  /\ NoRemoteActivity

PackStep ==
  \/ GenerateManifest
  \/ PackStat
  \/ PackChunkFile
  \/ PackChunk
  \/ PackFileDone
  \/ PackFinish

PackNext ==
  /\ PackStep
  /\ UNCHANGED <<deltaVars, verify, callVars, store, localChunks, opts, run,
                 prev, promo, pauseVars, loopVars, histVars>>

PackSpec == PackInit /\ [][PackNext]_vars

(***************************************************************************)
(* All operations against one bucket: one upload(), one detect-delta, one  *)
(* verify-upload and one promoteVersion call, their steps interleaved.     *)
(***************************************************************************)

\* Version 2 without b.bin.
ManifestG(withUrl, bt) ==
  createChunkManifest("v2", bt,
    <<FileEntry("a.bin", <<H1, H3>>, withUrl, bt, "v2")>>)

\* A delta upload that drops b.bin of version 1, with or without the chunk
\* urls in the local manifests.
BucketOptions ==
  {Options(ManifestG(u, "production"), ManifestE(u, "production"), "delta") :
     u \in BOOLEAN}

BucketVerifyManifests ==
  {ManifestE(TRUE, "production"), ManifestG(FALSE, "production")}

BucketInit ==
  /\ opts \in BucketOptions
  /\ store = AfterUpload(EmptyStore, ManifestE(FALSE, "production"),
                         "production", "v1", {})
  /\ localChunks = Hashes
  /\ promo = [p \in Promoters |-> IdlePromo]
  /\ NoSession
  /\ deltaOld = ManifestE(TRUE, "production")
  /\ deltaNew = ManifestG(TRUE, "production")
  /\ delta = NoDelta("not called")
  /\ verify = IdleVerify
  /\ NoPackaging
  /\ NoCalls

\* The steps of an upload() that nobody pauses: the second wait is never
\* entered.
BucketNext ==
  \/ run = 0 /\ StartUpload
  \/ LoopHead
  \/ AfterFirstWait
  \/ AccessDone
  \/ ExistsDone
  \/ PutDone
  \/ ManifestVersionPut
  \/ ManifestLatestPut
  \/ VersionFileStep
  \/ DetectDelta
  \/ \E m \in BucketVerifyManifests : VerifyStartOf(m)
  \/ VerifyStep
  \/ PromoteStart(1)
  \/ PromoteFetchDone(1)
  \/ PromoteVerifyStep(1)
  \/ PromotePutDone(1)

BucketSpec == BucketInit /\ [][BucketNext]_vars

(***************************************************************************)
(* Properties of delta detection (DeltaSpec).                              *)
(***************************************************************************)

\* A chunk-based manifest of the data model: tagged chunk-based, with a
\* version, a files array, and for every file a name and a chunk list
\* whose chunks carry hash, size and offset (the url is optional).
ChunkBasedManifest(m) ==
  /\ m.manifestType = "chunk-based"
  /\ m.version # NoStr
  /\ m.hasFiles
  /\ \A f \in 1..Len(m.files) :
       /\ m.files[f].filename # NoStr
       /\ m.files[f].hasChunks
       /\ \A c \in 1..Len(m.files[f].chunks) :
            /\ m.files[f].chunks[c].hash # NoHash
            /\ m.files[f].chunks[c].size # NoNum
            /\ m.files[f].chunks[c].offset # NoNum

\* The hashes referenced by a list of file entries.
HashesOfFiles(fs) ==
  UNION {{fs[f].chunks[c].hash : c \in 1..Len(fs[f].chunks)} : f \in 1..Len(fs)}

FileNames(fs) == [f \in 1..Len(fs) |-> fs[f].filename]

FileHashes(fs) ==
  [f \in 1..Len(fs) |->
     [c \in 1..Len(fs[f].chunks) |-> fs[f].chunks[c].hash]]

\* C10: for any two chunk-based manifests detectDelta returns, with
\* chunksToUpload the set of hashes referenced by newFiles and changedFiles
\* minus every hash occurring in old; for old = {a.bin: [h1, h2]} and
\* new = {a.bin: [h1, h3], b.bin: [h4]} it returns newFiles = [b.bin],
\* changedFiles = [a.bin] and chunksToUpload = {h3, h4}.
C10_ChunksToUpload ==
  (/\ delta.error # "not called"
   /\ ChunkBasedManifest(deltaOld)
   /\ ChunkBasedManifest(deltaNew)) =>
    /\ delta.error = "ok"
    /\ delta.chunksToUpload
         = (HashesOfFiles(delta.newFiles) \cup HashesOfFiles(delta.changedFiles))
             \ HashesOfFiles(deltaOld.files)
    /\ (/\ FileNames(deltaOld.files) = <<"a.bin">>
        /\ FileHashes(deltaOld.files) = <<(<<H1, H2>>)>>
        /\ FileNames(deltaNew.files) = <<"a.bin", "b.bin">>
        /\ FileHashes(deltaNew.files) = <<(<<H1, H3>>), (<<H4>>)>>) =>
         /\ FileNames(delta.newFiles) = <<"b.bin">>
         /\ FileNames(delta.changedFiles) = <<"a.bin">>
         /\ delta.chunksToUpload = {H3, H4}

\* The file entries of a list, as a set.
FileSet(fs) == {fs[f] : f \in 1..Len(fs)}

\* The file of a list with this name (names are unique in the inputs).
FileNamed(fs, name) == CHOOSE f \in FileSet(fs) : f.filename = name

HasFileNamed(fs, name) == \E f \in FileSet(fs) : f.filename = name

\* C11: detectDelta classifies files by filename: a file of new absent
\* from old is in newFiles, a file of old absent from new is in
\* deletedFiles, and a file present in both is in changedFiles iff its
\* totalSize, its chunk count or its ordered sequence of chunk hashes
\* differs; an unchanged file is in none of the three lists.
C11_FileClassification ==
  delta.error = "ok" =>
    /\ FileSet(delta.newFiles)
         = {f \in FileSet(deltaNew.files) :
              ~HasFileNamed(deltaOld.files, f.filename)}
    /\ FileSet(delta.deletedFiles)
         = {f \in FileSet(deltaOld.files) :
              ~HasFileNamed(deltaNew.files, f.filename)}
    /\ FileSet(delta.changedFiles)
         = {f \in FileSet(deltaNew.files) :
              /\ HasFileNamed(deltaOld.files, f.filename)
              /\ LET o == FileNamed(deltaOld.files, f.filename)
                 IN \/ o.totalSize # f.totalSize
                    \/ Len(o.chunks) # Len(f.chunks)
                    \/ FileHashes(<<o>>) # FileHashes(<<f>>)}
    /\ Len(delta.newFiles) = Cardinality(FileSet(delta.newFiles))
    /\ Len(delta.changedFiles) = Cardinality(FileSet(delta.changedFiles))
    /\ Len(delta.deletedFiles) = Cardinality(FileSet(delta.deletedFiles))

\* a.bin changed by the order of its hashes only, next to a new file.
C11_Witness ==
  /\ delta.error = "ok"
  /\ FileNames(deltaOld.files) = <<"a.bin">>
  /\ FileHashes(deltaOld.files) = <<(<<H1, H2>>)>>
  /\ deltaOld.files[1].totalSize = 11
  /\ FileNames(delta.changedFiles) = <<"a.bin">>
  /\ FileHashes(delta.changedFiles) = <<(<<H2, H1>>)>>
  /\ FileNames(delta.newFiles) = <<"b.bin">>

\* C12: delta detection over two chunk-based manifests whose buildType
\* values differ is a hard error: detectDelta does not return a delta.
C12_BuildTypeMismatchIsError ==
  (/\ delta.error # "not called"
   /\ ChunkBasedManifest(deltaOld)
   /\ ChunkBasedManifest(deltaNew)
   /\ deltaOld.buildType # deltaNew.buildType) =>
    delta.error # "ok"

AllChunksHaveUrl(m) ==
  \A f \in 1..Len(m.files) : \A c \in 1..Len(m.files[f].chunks) :
    m.files[f].chunks[c].url # NoUrl

\* On manifests whose chunks all carry a url detectDelta returns, and its
\* chunksToUpload is the set stated above.
DeltaOfPublishedManifests ==
  (/\ delta.error # "not called"
   /\ ChunkBasedManifest(deltaOld) /\ AllChunksHaveUrl(deltaOld)
   /\ ChunkBasedManifest(deltaNew) /\ AllChunksHaveUrl(deltaNew)) =>
    /\ delta.error = "ok"
    /\ delta.chunksToUpload
         = (HashesOfFiles(delta.newFiles) \cup HashesOfFiles(delta.changedFiles))
             \ HashesOfFiles(deltaOld.files)

(***************************************************************************)
(* Properties of verification (VerifySpec).                                *)
(***************************************************************************)

\* C14: in lenient mode a structurally valid chunk-based manifest whose
\* chunks carry no url is accepted, so that a freshly generated local
\* manifest can be parsed for verification: the parse of verify-upload
\* does not fail on a chunk-based manifest.
C14_LenientParseAccepts ==
  (verify.pc # "idle" /\ ChunkBasedManifest(verify.input)) =>
    verify.error \in {"none", "existence check failed"}

\* The failing checks of a manifest tagged chunk-based, each at its
\* place in the document: <<file, chunk, field>>, with the manifest's own
\* fields at file 0 and a file's own fields at chunk 0.
Offences(m) ==
  {o \in {<<0, 0, 1>>} : m.version = NoStr}
    \cup {o \in {<<0, 0, 2>>} : ~m.hasFiles}
    \cup {<<f, 0, 1>> : f \in {g \in 1..Len(m.files) : m.files[g].filename = NoStr}}
    \cup {<<f, 0, 2>> : f \in {g \in 1..Len(m.files) : ~m.files[g].hasChunks}}
    \cup UNION {
         {<<f, c, 1>> : c \in {d \in 1..Len(m.files[f].chunks) :
                                m.files[f].chunks[d].hash = NoHash}}
           \cup {<<f, c, 2>> : c \in {d \in 1..Len(m.files[f].chunks) :
                                       m.files[f].chunks[d].size = NoNum}}
           \cup {<<f, c, 3>> : c \in {d \in 1..Len(m.files[f].chunks) :
                                       m.files[f].chunks[d].offset = NoNum}}
           \cup {<<f, c, 4>> : c \in {d \in 1..Len(m.files[f].chunks) :
                                       m.files[f].chunks[d].url = NoUrl}} :
         f \in 1..Len(m.files)}

\* Document order.
Earlier(a, b) ==
  \/ a[1] < b[1]
  \/ a[1] = b[1] /\ a[2] < b[2]
  \/ a[1] = b[1] /\ a[2] = b[2] /\ a[3] < b[3]

FirstOffence(m) ==
  CHOOSE o \in Offences(m) : \A q \in Offences(m) : q = o \/ Earlier(o, q)

\* The field an error message names.
OffenceMessage(o) ==
  IF o[1] = 0
  THEN (IF o[3] = 1 THEN "Manifest missing version"
        ELSE "Manifest missing files array")
  ELSE IF o[2] = 0
  THEN (IF o[3] = 1 THEN "File missing filename"
        ELSE "File missing chunks array")
  ELSE CASE o[3] = 1 -> "Chunk missing hash"
         [] o[3] = 2 -> "Chunk missing size"
         [] o[3] = 3 -> "Chunk missing offset"
         [] OTHER -> "Chunk missing url"

\* C15: validateChunkManifest fails with the error naming the first
\* offending field in document order (a missing version, files array,
\* file name or chunks array, a chunk missing hash, size, offset or, in
\* the strict mode, url), and returns when no field offends; a totalSize
\* that differs from the sum of the chunk sizes never makes it fail.
C15_FirstOffendingField ==
  (verify.pc # "idle" /\ verify.input.manifestType = "chunk-based") =>
    IF Offences(verify.input) = {}
    THEN verify.error \in {"none", "existence check failed"}
    ELSE /\ verify.pc = "failed"
         /\ verify.error = OffenceMessage(FirstOffence(verify.input))

\* A chunk of the first file without size, before a chunk of the second
\* file without hash.
C15_Witness ==
  /\ verify.pc = "failed"
  /\ verify.error = "Chunk missing size"
  /\ <<2, 1, 1>> \in Offences(verify.input)
  /\ \E c \in 1..2 : FirstOffence(verify.input) = <<1, c, 2>>

\* The keys of the first n chunks of the manifest being verified.
VerifyKeys(n) ==
  [j \in 1..n |-> ChunkKey(verify.buildType, verify.input.version,
                           verify.allChunks[j].hash)]

KeysOf(cs) == [j \in 1..Len(cs) |-> cs[j].key]

\* C19: verifyManifest sends no write, and its result partitions the
\* chunk occurrences of the manifest: each chunk checked is in
\* existingChunks when its key exists and in missingChunks otherwise, the
\* two lengths sum to totalChunks when it returns, and allChunksExist
\* holds iff missingChunks is empty.
C19_VerifyPartitions ==
  /\ verify.pc # "idle" => store = verify.before
  /\ putLog = <<>>
  /\ verify.pc \in {"checking", "done"} =>
       /\ verify.allChunks = getAllChunks(verify.input)
       /\ KeysOf(verify.existingChunks)
            = SelectSeq(VerifyKeys(verify.k), LAMBDA key : key \in DOMAIN store)
       /\ KeysOf(verify.missingChunks)
            = SelectSeq(VerifyKeys(verify.k), LAMBDA key : key \notin DOMAIN store)
       /\ Len(verify.existingChunks) + Len(verify.missingChunks) = verify.k
  /\ verify.pc = "done" =>
       /\ verify.k = Len(getAllChunks(verify.input))
       /\ verify.allChunksExist <=> verify.missingChunks = <<>>

C19_Witness ==
  /\ verify.pc = "done"
  /\ verify.existingChunks # <<>>
  /\ verify.missingChunks # <<>>
  /\ ~verify.allChunksExist

(***************************************************************************)
(* Properties of the upload session (Spec, FairSpec).                      *)
(***************************************************************************)

LoopPcs == {"loop", "await1", "await2", "access", "exists", "put"}

\* Every item begun so far, in order, is the next index: none twice, none
\* passed over.
LogInOrder == \A k \in 1..Len(log) : log[k].index = k - 1

\* C1: with pause()/resume() interleaved in any way, once the session is
\* resumed for good every worklist index is processed exactly once, in
\* ascending order: the items begun are always 0, 1, 2, ... without a
\* repeat, the loop is left, and when it has been left every index was
\* processed.
C1_PauseResumeExactlyOnce ==
  /\ []LogInOrder
  /\ [](pc \notin (LoopPcs \cup {"idle"}) => Len(log) = Len(chunksToUpload))
  /\ (<>[](~isPaused)) => <>[](pc \notin LoopPcs)

\* C2: a session suspended in the pause wait after whose suspension
\* resume() was the last call (the flag is clear) has had its wait
\* released: the promise it awaits is resolved, so it goes on with item i.
C2_ResumeReleasesWait ==
  (pc \in {"await1", "await2"} /\ awaited # 0 /\ ~isPaused)
    => awaited \in settled

\* C3: at the moment the processing of a worklist item begins (the call
\* of fs.access), isPaused is false.
C3_NotPausedWhenItemBegins ==
  \A k \in 1..Len(log) : ~log[k].paused

\* The chunk of a published manifest, with the url written for it.
PublishedChunks(bt, v) == getAllChunks(store[ManifestKey(bt, v)].manifest)

\* C6: after upload() returns with failedChunks = 0, every chunk of the
\* manifest it published for (buildType, version) has the url
\* {buildType}/{version}/chunks/{hash[0:2]}/{hash} and exists there.
C6_PublishedChunksExist ==
  (pc = "returned" /\ result.stats.failedChunks = 0) =>
    \A k \in 1..Len(PublishedChunks(buildType, opts.version)) :
      LET c == PublishedChunks(buildType, opts.version)[k]
      IN /\ c.url = ChunkKey(buildType, opts.version, c.hash)
         /\ c.url \in DOMAIN store

\* C13: a legacy flat manifest is rejected by a chunked upload: upload()
\* of a manifest that is told apart as file-based throws, and no put is
\* sent to the remote store.
C13_LegacyUploadRejected ==
  (run >= 1 /\ detectManifestType(opts.newManifest) = "file-based") =>
    /\ pc # "returned"
    /\ putLog = <<>>

\* C7: a failure on an item is counted once in failedChunks, the item is
\* not attempted again, and the session goes on: every item is begun
\* exactly once in index order, the loop is only left with every item
\* processed, and upload() never throws out of the loop.
C7_FailureDoesNotAbort ==
  /\ failedChunks = Cardinality({k \in 1..Len(log) : log[k].outcome = "failed"})
  /\ LogInOrder
  /\ \A k \in 1..Len(log) : log[k].outcome = "pending" => k = Len(log)
  /\ \A k \in 1..Len(log) : log[k].outcome = "failed" => i >= k
  /\ pc \in {"manifest", "latest", "version", "returned"}
       => Len(log) = Len(chunksToUpload)
  /\ pc = "threw" =>
       \/ Len(log) = 0
       \/ result.error = "put failed" /\ Len(log) = Len(chunksToUpload)

C7_Witness ==
  /\ pc = "returned"
  /\ \E j, k \in 1..Len(log) :
       j < k /\ log[j].outcome = "failed" /\ log[k].outcome = "uploaded"

\* The PutObject requests sent for worklist item n.
PutsForItem(n) == SelectSeq(putLog, LAMBDA e : e.item = n)

\* C8 as stated: an item is skipped iff its local file exists and the
\* remote object exists, put and recorded as uploaded iff its local file
\* exists and the remote object does not, with at most one put per item.
C8_SkipIffExists ==
  \A k \in 1..Len(log) :
    log[k].outcome # "pending" =>
      /\ log[k].outcome = "skipped"
           <=> (log[k].local = "present" /\ log[k].existed)
      /\ (log[k].outcome = "uploaded" /\ log[k].puts = 1)
           <=> (log[k].local = "present" /\ ~log[k].existed)
      /\ log[k].puts <= 1

\* C8 amended: the local file is checked first, then the remote key; an
\* item is skipped, with no put, iff its local file exists and the
\* existence check answers that the object exists; a put is sent, at most
\* one, only when the local file exists and the check answers that the
\* object is absent; the item is recorded as uploaded iff that put
\* succeeds, and as failed otherwise.
C8_SkipIffReportedExisting ==
  \A k \in 1..Len(log) :
    /\ log[k].remote # "unknown" => log[k].local = "present"
    /\ log[k].remote = "exists" => log[k].existed
    /\ log[k].remote = "absent" => ~log[k].existed
    /\ Len(PutsForItem(log[k].index)) = log[k].puts
    /\ log[k].puts <= 1
    /\ log[k].puts = 1 => (log[k].local = "present" /\ log[k].remote = "absent")
    /\ log[k].outcome # "pending" =>
         /\ log[k].outcome = "skipped"
              <=> (log[k].local = "present" /\ log[k].remote = "exists")
         /\ log[k].outcome = "skipped" => log[k].puts = 0
         /\ log[k].outcome = "uploaded"
              <=> (log[k].puts = 1 /\ PutsForItem(log[k].index)[1].ok)
         /\ log[k].outcome \in {"skipped", "uploaded", "failed"}

C8_Witness ==
  \E j, k \in 1..Len(log) :
    /\ log[j].outcome = "uploaded" /\ log[j].puts = 1
    /\ log[k].outcome = "skipped" /\ log[k].existed

\* The chunk puts of the current invocation.
ChunkPuts == SelectSeq(putLog, LAMBDA e : e.item >= 0)

\* C9 as stated: after an upload() of a manifest has returned, the second
\* upload() of the same manifest returns uploadedChunks = 0 and
\* skippedChunks = totalChunks and sends no chunk put.
C9_SecondUploadAllSkipped ==
  (run >= 2 /\ prev.success /\ pc = "returned") =>
    /\ result.stats.uploadedChunks = 0
    /\ result.stats.skippedChunks = result.stats.totalChunks
    /\ ChunkPuts = <<>>

\* C9 amended: when the previous upload() of the same manifest returned
\* with failedChunks = 0, the next one sends no chunk put and uploads
\* nothing: uploadedChunks = 0, skippedChunks = totalChunks - failedChunks,
\* so every chunk is skipped unless its local file is missing or its
\* existence check fails in that pass.
C9_SecondUploadUploadsNothing ==
  (run >= 2 /\ prev.success /\ prev.stats.failedChunks = 0) =>
    /\ uploadedChunks = 0
    /\ ChunkPuts = <<>>
    /\ pc = "returned" =>
         /\ result.stats.uploadedChunks = 0
         /\ result.stats.skippedChunks
              = result.stats.totalChunks - result.stats.failedChunks
         /\ (\A k \in 1..Len(log) : log[k].outcome # "failed")
              => result.stats.skippedChunks = result.stats.totalChunks

C9_Witness ==
  /\ run >= 2
  /\ pc = "returned"
  /\ prev.success
  /\ prev.stats.failedChunks = 0
  /\ prev.stats.uploadedChunks > 0
  /\ result.stats.totalChunks > 0
  /\ result.stats.skippedChunks = result.stats.totalChunks

(***************************************************************************)
(* Properties of promotion (PromoteSpec).                                  *)
(***************************************************************************)

\* The PutObject requests sent by promoter p.
PutsBy(p) == SelectSeq(putLog, LAMBDA e : e.by = p)

SameObject(s, t, k) ==
  (k \in DOMAIN s <=> k \in DOMAIN t) /\ (k \in DOMAIN s => s[k] = t[k])

\* C4: a promoteVersion call that fails because a chunk is missing, an
\* existence check fails or the manifest cannot be fetched sends no put,
\* so that (no other caller writing) the latest manifest is the object it
\* was before the call; and a call that does write the latest manifest
\* found every chunk of the manifest to exist.
C4_PromotionGuard ==
  \A p \in Promoters :
    /\ (promo[p].pc = "failed" /\ promo[p].error # "put failed") =>
         /\ PutsBy(p) = <<>>
         /\ (\A q \in Promoters \ {p} : PutsBy(q) = <<>>) =>
              SameObject(store, promo[p].before, LatestKey(promo[p].buildType))
    /\ PutsBy(p) # <<>> =>
         /\ promo[p].k = Len(promo[p].allChunks)
         /\ Len(promo[p].existingChunks) = Len(promo[p].allChunks)
         /\ promo[p].missingChunks = <<>>

C4_Witness ==
  \E p \in Promoters :
    /\ promo[p].pc = "failed"
    /\ promo[p].error = "chunks are missing"
    /\ LatestKey("production") \in DOMAIN store

\* C5: a successful promoteVersion call sent exactly one put, to
\* {buildType}/roleplayai_manifest.json, and every other object (the
\* version-pinned manifests, the version descriptors, the chunks) is as
\* it was when the call began.
C5_PromoteWritesLatestOnly ==
  \A p \in Promoters :
    promo[p].pc = "done" =>
      /\ Len(PutsBy(p)) = 1
      /\ PutsBy(p)[1].key = LatestKey(promo[p].buildType)
      /\ PutsBy(p)[1].ok
      /\ \A key \in (DOMAIN store \cup DOMAIN promo[p].before)
                      \ {LatestKey(promo[p].buildType)} :
           SameObject(store, promo[p].before, key)

C5_Witness ==
  \E p \in Promoters :
    /\ promo[p].pc = "done"
    /\ store[LatestKey("production")]
         # promo[p].before[LatestKey("production")]

(***************************************************************************)
(* Further properties of the upload session (Spec).                        *)
(***************************************************************************)

\* The puts of the current invocation that are not chunk puts.
ManifestPuts == SelectSeq(putLog, LAMBDA e : e.item = -1)

\* C16: a failure of the put of the version-pinned manifest, of the latest
\* manifest or of the version descriptor is fatal: upload() ends with the
\* error and returns no success result; a returned upload() had none of
\* these puts fail.
C16_ManifestFailureIsFatal ==
  /\ (\E n \in 1..Len(putLog) : putLog[n].item = -1 /\ ~putLog[n].ok) =>
       /\ pc = "threw"
       /\ ~result.success
       /\ result.error = "put failed"
       /\ ~putLog[Len(putLog)].ok
  /\ pc = "returned" =>
       /\ result.success
       /\ \A n \in 1..Len(ManifestPuts) : ManifestPuts[n].ok

\* The latest manifest could not be put after a chunk had failed and
\* another had been uploaded.
C16_Witness ==
  /\ pc = "threw"
  /\ putLog # <<>>
  /\ putLog[Len(putLog)].key = <<buildType, "roleplayai_manifest.json">>
  /\ ~putLog[Len(putLog)].ok
  /\ uploadedChunks > 0
  /\ failedChunks > 0

\* No manifest or descriptor put before the last worklist item has been
\* processed, and none followed by a chunk put.
ManifestPutsComeLast ==
  /\ ManifestPuts # <<>> =>
       /\ Len(log) = Len(chunksToUpload)
       /\ \A k \in 1..Len(log) : log[k].outcome # "pending"
  /\ \A m, n \in 1..Len(putLog) :
       (putLog[m].item = -1 /\ putLog[n].item >= 0) => n < m

\* C17 as stated: every upload() that returns has written, in this order
\* and after the last worklist item, the version-pinned manifest, the
\* latest manifest and the version descriptor.
C17_ManifestThenLatestThenVersion ==
  /\ ManifestPutsComeLast
  /\ pc = "returned" =>
       [n \in 1..Len(ManifestPuts) |-> ManifestPuts[n].key]
         = << <<buildType, opts.version, "manifest.json">>,
              <<buildType, "roleplayai_manifest.json">>,
              <<buildType, opts.version, "version.json">> >>

\* C17 amended: every upload() that returns has written, in this order,
\* after the last worklist item was processed and whatever the failed
\* count, the version-pinned manifest, the latest manifest and, when a
\* version.json file lies beside the local manifest, the version
\* descriptor; no manifest write precedes the processing of an item.
C17_ManifestThenLatestThenOptionalVersion ==
  /\ ManifestPutsComeLast
  /\ pc = "returned" =>
       /\ [n \in 1..Len(ManifestPuts) |-> ManifestPuts[n].key]
            \in { << <<buildType, opts.version, "manifest.json">>,
                     <<buildType, "roleplayai_manifest.json">> >>,
                  << <<buildType, opts.version, "manifest.json">>,
                     <<buildType, "roleplayai_manifest.json">>,
                     <<buildType, opts.version, "version.json">> >> }
       /\ \A n \in 1..Len(ManifestPuts) : ManifestPuts[n].ok
       /\ <<buildType, opts.version, "manifest.json">> \in DOMAIN store
       /\ <<buildType, "roleplayai_manifest.json">> \in DOMAIN store
       /\ store[<<buildType, "roleplayai_manifest.json">>]
            = store[<<buildType, opts.version, "manifest.json">>]

C17_Witness ==
  /\ pc = "returned"
  /\ result.stats.failedChunks > 0
  /\ ChunkPuts # <<>>
  /\ Len(ManifestPuts) = 3

\* The items processed so far with this outcome.
Outcomes(o) == {k \in 1..Len(log) : log[k].outcome = o}

\* C18: a returned upload() carries the uploaded, skipped and failed
\* counts, which are the numbers of items with these outcomes and sum to
\* totalChunks, the worklist length; in the loop the three counters sum to
\* the number of items processed.
C18_CountersAddUp ==
  /\ uploadedChunks + skippedChunks + failedChunks
       = Cardinality({k \in 1..Len(log) : log[k].outcome # "pending"})
  /\ pc = "loop" => uploadedChunks + skippedChunks + failedChunks = i
  /\ pc \in {"access", "exists", "put"} =>
       uploadedChunks + skippedChunks + failedChunks = i
  /\ pc = "returned" =>
       /\ result.success
       /\ result.stats.totalChunks = Len(chunksToUpload)
       /\ result.stats.uploadedChunks = Cardinality(Outcomes("uploaded"))
       /\ result.stats.skippedChunks = Cardinality(Outcomes("skipped"))
       /\ result.stats.failedChunks = Cardinality(Outcomes("failed"))
       /\ result.stats.uploadedChunks + result.stats.skippedChunks
            + result.stats.failedChunks = result.stats.totalChunks

C18_Witness ==
  /\ pc = "returned"
  /\ result.stats.uploadedChunks > 0
  /\ result.stats.skippedChunks > 0
  /\ result.stats.failedChunks > 0

\* C20: resume() called when the session is not paused changes nothing:
\* the flag stays false, no wait condition is created or released, the
\* cursor and the counters of the running upload are as before; and a
\* session that is not paused holds no wait condition.
C20_ResumeWhenNotPausedIsNoOp ==
  /\ [](~isPaused => (pauseResolve = 0 /\ pauseResumePromise = 0))
  /\ [][(~isPaused /\ resume) => UNCHANGED vars]_vars

\* A running upload, resumed after an earlier pause, with items done.
C20_Witness ==
  /\ InFlight
  /\ ~isPaused
  /\ nextPromise > 1
  /\ i > 0
  /\ uploadedChunks > 0

\* C21: the session reference exists exactly while an upload() invocation
\* is running: once the upload-to-r2 handler has completed, with a result
\* or with an error, currentUploadManager is null, pause-upload and
\* resume-upload reply that there is no active upload, and their steps
\* change nothing.
C21_SessionReferenceCleared ==
  /\ [](pc \in {"returned", "threw"} =>
          /\ currentUploadManager = 0
          /\ PauseUploadReply = "No active upload to pause"
          /\ ResumeUploadReply = "No active upload to resume")
  /\ [](InFlight => currentUploadManager = run)
  /\ [][(pc \in {"returned", "threw"} /\ (PauseUpload \/ ResumeUpload))
          => UNCHANGED vars]_vars

\* A paused upload has returned: the session it was paused in is gone.
C21_Witness ==
  /\ pc = "returned"
  /\ currentUploadManager = 0
  /\ isPaused
  /\ run = 2
  /\ prev.error = "put failed"

(***************************************************************************)
(* Properties of the bucket under all operations (BucketSpec).             *)
(***************************************************************************)

ChunkKeysOf(s) == {k \in DOMAIN s : s[k].kind = "chunk"}

\* C22: no step of detectDelta, upload, verifyManifest or promoteVersion
\* removes a chunk object from the bucket or changes one: every chunk key
\* that exists keeps existing with its content, the chunks of files that
\* the delta reports as deleted included.
C22_ChunksAreNeverDeleted ==
  [][\A k \in ChunkKeysOf(store) :
       k \in DOMAIN store' /\ store'[k] = store[k]]_vars

\* The delta upload that drops b.bin has returned, its delta reported
\* b.bin as deleted, a promotion and a verification have completed, and
\* the chunk of b.bin is still in the bucket with the new chunk beside it.
C22_Witness ==
  /\ pc = "returned"
  /\ opts.mode = "delta"
  /\ delta.error = "ok"
  /\ Len(delta.deletedFiles) > 0
  /\ promo[1].pc = "done"
  /\ verify.pc = "done"
  /\ ChunkKey("production", "v1", H4) \in DOMAIN store
  /\ ChunkKey("production", "v2", H3) \in DOMAIN store

(***************************************************************************)
(* Properties of concurrent promotions (PromoteSpec).                      *)
(***************************************************************************)

BothPromoted ==
  /\ promo[1].pc = "done"
  /\ promo[2].pc = "done"
  /\ promo[1].version # promo[2].version

\* C23: when two promoteVersion calls for different versions of one build
\* type have both completed, the latest manifest is the one the later of
\* the two puts wrote, whole: its version field and its files are those
\* of the manifest that caller promoted, and every chunk url points into
\* the version that caller promoted.
C23_LastPromotionWins ==
  BothPromoted =>
    LET last == putLog[Len(putLog)]
        w == promo[last.by]
        latest == store[<<w.buildType, "roleplayai_manifest.json">>].manifest
        promoted == w.manifest
    IN /\ last.ok
       /\ last.key = <<w.buildType, "roleplayai_manifest.json">>
       /\ latest.version = promoted.version
       /\ latest.buildType = w.buildType
       /\ FileNames(latest.files) = FileNames(promoted.files)
       /\ FileHashes(latest.files) = FileHashes(promoted.files)
       /\ \A f \in 1..Len(latest.files) :
            \A c \in 1..Len(latest.files[f].chunks) :
              latest.files[f].chunks[c].url
                = <<w.buildType, w.version, "chunks",
                    HashPrefix(latest.files[f].chunks[c].hash),
                    latest.files[f].chunks[c].hash>>

\* Version 2 was the latest; both versions were promoted and the put of
\* version 1 came last.
C23_Witness ==
  /\ BothPromoted
  /\ putLog[Len(putLog)].by = 1
  /\ promo[1].version = "v1"
  /\ promo[1].before[<<"production", "roleplayai_manifest.json">>].manifest.version = "v2"
  /\ store[<<"production", "roleplayai_manifest.json">>].manifest.version = "v1"

(***************************************************************************)
(* Properties of the progress events of promoteVersion (PromoteSpec).      *)
(***************************************************************************)

PctLeq(a, b) == a[1] * b[2] <= b[1] * a[2]

NonDecreasing(progress) ==
  \A n \in 1..(Len(progress) - 1) : PctLeq(progress[n], progress[n + 1])

\* C24: within one promoteVersion call, whether it completes or fails, at
\* least one progress event is delivered and the percentages delivered
\* never decrease (the events of the verification it runs, mapped into
\* 10..80, included).
C24_ProgressNeverDecreases ==
  \A p \in Promoters :
    promo[p].pc # "idle" =>
      /\ promo[p].progress # <<>>
      /\ NonDecreasing(promo[p].progress)

(***************************************************************************)
(* Properties of the chunker (ChunkSpec).                                  *)
(***************************************************************************)

ChunkerCalls == {c \in {fastCDC.firstCall, fastCDC.lastCall} : c.made}

\* Every chunk but the last within minSize..maxSize, the last within
\* 1..maxSize.
SizesWithinBounds(chunks, cfg) ==
  \A k \in 1..Len(chunks) :
    /\ chunks[k].size <= cfg.maxSize
    /\ IF k < Len(chunks) THEN cfg.minSize <= chunks[k].size
       ELSE 1 <= chunks[k].size

\* C25 as stated: whatever the sizes configured, every chunk of a
\* chunkBuffer / chunkFile call but the final one has
\* minSize <= size <= maxSize, and the final one 1 <= size <= maxSize.
C25_SizesWithinBoundsForEveryConfig ==
  \A call \in ChunkerCalls : SizesWithinBounds(call.chunks, fastCDC.config)

\* C25 amended: when minSize <= maxSize, every chunk but the final one has
\* minSize <= size <= maxSize and the final one 1 <= size <= maxSize; when
\* minSize > maxSize the boundary test never cuts before minSize, every
\* chunk but the final one has exactly minSize bytes, more than maxSize,
\* and the final one has between 1 and minSize.
C25_SizesWithinBoundsWhenMinBelowMax ==
  \A call \in ChunkerCalls :
    IF fastCDC.config.minSize <= fastCDC.config.maxSize
    THEN SizesWithinBounds(call.chunks, fastCDC.config)
    ELSE \A k \in 1..Len(call.chunks) :
           IF k < Len(call.chunks)
           THEN call.chunks[k].size = fastCDC.config.minSize
           ELSE /\ 1 <= call.chunks[k].size
                /\ call.chunks[k].size <= fastCDC.config.minSize

\* A buffer cut at maxSize, no boundary having been found from minSize
\* on, with a final chunk shorter than minSize.
C25_Witness ==
  /\ fastCDC.config.minSize < fastCDC.config.maxSize
  /\ fastCDC.lastCall.made
  /\ Len(fastCDC.lastCall.chunks) = 2
  /\ fastCDC.lastCall.chunks[1].size = fastCDC.config.maxSize
  /\ fastCDC.lastCall.chunks[2].size < fastCDC.config.minSize

Triples(chunks) ==
  [k \in 1..Len(chunks) |->
     <<chunks[k].hash, chunks[k].size, chunks[k].offset>>]

RECURSIVE SumOfSizes(_)
SumOfSizes(chunks) ==
  IF chunks = <<>> THEN 0 ELSE Head(chunks).size + SumOfSizes(Tail(chunks))

\* C27: a reconstructFile call that completes on the chunks of a chunked
\* file, given in any order, with their data or to be read from the chunk
\* cache, has written exactly the bytes of the file, and the size it
\* reports is the sum of the chunk sizes.
C27_ReconstructionRoundTrip ==
  recon.pc = "finished" =>
    /\ recon.output = recon.source
    /\ recon.size = SumOfSizes(recon.chunks)
    /\ recon.size = Len(recon.source)

\* Three or more chunks, two of them with the same content, were given
\* out of order without their data and read back from the cache.
C27_Witness ==
  /\ recon.pc = "finished"
  /\ ~recon.sorted
  /\ Len(recon.chunks) >= 3
  /\ ~recon.chunks[1].hasData
  /\ \E a, b \in 1..Len(recon.chunks) :
       a # b /\ recon.chunks[a].hash = recon.chunks[b].hash
  /\ \E a, b \in 1..Len(recon.chunks) :
       recon.chunks[a].hash # recon.chunks[b].hash

\* C28: reconstructFile writes the chunks in ascending order of offset,
\* one after the other, whatever order the reads of a batch complete in:
\* the n-th write is the chunk with the n-th smallest offset, so no chunk
\* of a batch is written before every chunk of the batches before it; and
\* the reads of a batch start only when all earlier chunks are written.
C28_WritesInOffsetOrder ==
  /\ \A n \in 1..Len(recon.written) : recon.written[n] = n
  /\ \A n \in 1..(Len(recon.written) - 1) :
       recon.chunks[recon.written[n]].offset
         < recon.chunks[recon.written[n + 1]].offset
  /\ recon.pc = "reading" => Len(recon.written) = recon.currentIndex
  /\ recon.pc = "writing" =>
       /\ recon.pending = {}
       /\ Len(recon.written) + Len(recon.order) = recon.batchEnd

\* Two batches were written, the reads of the second one having completed
\* in the reverse order.
C28_Witness ==
  /\ recon.pc = "finished"
  /\ Len(recon.written) = 4
  /\ recon.arrival = <<4, 3>>
  /\ ~recon.sorted

(***************************************************************************)
(* Properties of the chunk cache (CacheSpec).                              *)
(***************************************************************************)

\* C29: getChunk(hash) returns bytes only when they are the content
\* stored under hash and their digest is hash; it returns null, without
\* throwing, when nothing is stored under hash; it throws when content is
\* stored under hash whose digest is not hash.
C29_GetChunkOutcomes ==
  cacheCall.op = "getChunk" =>
    LET path == getChunkPath(cacheCall.hash)
    IN /\ cacheCall.outcome \in {"bytes", "null", "error"}
       /\ cacheCall.outcome = "bytes" =>
            /\ path \in DOMAIN chunkCache
            /\ cacheCall.bytes = chunkCache[path]
            /\ Sha256(cacheCall.bytes) = cacheCall.hash
       /\ path \notin DOMAIN chunkCache => cacheCall.outcome = "null"
       /\ cacheCall.outcome = "null" => path \notin DOMAIN chunkCache
       /\ (path \in DOMAIN chunkCache
             /\ Sha256(chunkCache[path]) # cacheCall.hash)
            => cacheCall.outcome = "error"

\* getChunk threw on a file whose content is not that of its name, beside
\* a chunk that is intact.
C29_Witness ==
  /\ cacheCall.op = "getChunk"
  /\ cacheCall.outcome = "error"
  /\ getChunkPath(cacheCall.hash) \in DOMAIN chunkCache
  /\ Sha256(chunkCache[getChunkPath(cacheCall.hash)]) # cacheCall.hash
  /\ \E h \in CacheHashes :
       /\ getChunkPath(h) \in DOMAIN chunkCache
       /\ Sha256(chunkCache[getChunkPath(h)]) = h

\* C30: storeChunk never throws (it returns true or false); storing a
\* (hash, bytes) pair that is already stored leaves the chunk cache as it
\* was, which is the state one store of the pair produces; and no
\* storeChunk call touches what is stored under another hash.
C30_StoreChunkIdempotent ==
  cacheCall.op = "storeChunk" =>
    LET path == getChunkPath(cacheCall.hash)
    IN /\ cacheCall.outcome \in {"true", "false"}
       /\ cacheCall.outcome = "true" =>
            /\ path \in DOMAIN chunkCache
            /\ chunkCache[path] = cacheCall.data
       /\ (path \in DOMAIN cacheCall.before
             /\ cacheCall.before[path] = cacheCall.data)
            => chunkCache = cacheCall.before
       /\ DOMAIN chunkCache \ {path} = DOMAIN cacheCall.before \ {path}
       /\ \A x \in DOMAIN chunkCache \ {path} :
            chunkCache[x] = cacheCall.before[x]

\* A pair that was stored has been stored again, beside another chunk.
C30_Witness ==
  /\ cacheCall.op = "storeChunk"
  /\ cacheCall.outcome = "true"
  /\ getChunkPath(cacheCall.hash) \in DOMAIN cacheCall.before
  /\ cacheCall.before[getChunkPath(cacheCall.hash)] = cacheCall.data
  /\ Sha256(cacheCall.data) = cacheCall.hash
  /\ Cardinality(DOMAIN chunkCache) >= 2

(***************************************************************************)
(* Packaging.                                                              *)
(***************************************************************************)

\* The filenames of a sequence of file records.
NamesOf(files) == {files[n].filename : n \in 1..Len(files)}

\* The chunks cut the input into consecutive non-empty pieces: offsets
\* from 0, each the previous offset plus the previous size, sizes summing
\* to the length; no chunk for an empty input.
PartitionOf(chunks, length) ==
  /\ length = 0 <=> chunks = <<>>
  /\ \A k \in 1..Len(chunks) :
       /\ chunks[k].size >= 1
       /\ chunks[k].offset = IF k = 1 THEN 0
                             ELSE chunks[k - 1].offset + chunks[k - 1].size
  /\ SumOfChunkSizes(chunks) = length

\* The source file of this name.
SourceNamed(name) ==
  CHOOSE f \in {pack.files[n] : n \in 1..Len(pack.files)} : f.filename = name

\* C37: the chunks of a chunkFile call partition its input, and the
\* FileEntry that generateManifest writes for the file keeps their
\* offsets and sizes and has totalSize equal to the sum of its chunk
\* sizes.
C37_ChunksPartitionTheFile ==
  /\ fastCDC.lastCall.made =>
       /\ PartitionOf(fastCDC.lastCall.chunks, Len(fastCDC.lastCall.input))
       /\ \A k \in 1..Len(fastCDC.lastCall.chunks) :
            LET c == fastCDC.lastCall.chunks[k]
            IN c.data = SubSeq(fastCDC.lastCall.input,
                               c.offset + 1, c.offset + c.size)
  /\ \A n \in 1..Len(pack.manifest.files) :
       LET entry == pack.manifest.files[n]
           data == SourceNamed(entry.filename).data
           cut == chunkBuffer(fastCDC.config, data, 0)
       IN /\ PartitionOf(entry.chunks, Len(data))
          /\ entry.totalSize = SumOfChunkSizes(entry.chunks)
          /\ Len(entry.chunks) = Len(cut)
          /\ \A k \in 1..Len(cut) :
               /\ entry.chunks[k].hash = cut[k].hash
               /\ entry.chunks[k].size = cut[k].size
               /\ entry.chunks[k].offset = cut[k].offset

\* A manifest was written for two files, the first cut into several
\* chunks.
C37_Witness ==
  /\ pack.result = "success"
  /\ Len(pack.manifest.files) = 2
  /\ Len(pack.manifest.files[1].chunks) >= 3
  /\ pack.manifest.files[2].chunks[Len(pack.manifest.files[2].chunks)].offset > 0

\* C31: an I/O error while reading or chunking a source file is fatal to
\* the pass: generateManifest does not return success after a file's stat
\* or chunkFile threw, and a manifest it wrote names every file it was to
\* process.
C31_IoErrorIsFatal ==
  pack.result = "success" =>
    /\ pack.unreadable = {}
    /\ NamesOf(pack.manifest.files) = NamesOf(pack.files)

(***************************************************************************)
(* The latest manifest.                                                    *)
(***************************************************************************)

\* C32: in every state of the remote store, every chunk url of the
\* manifest stored at {buildType}/roleplayai_manifest.json names an object
\* that exists, also after an upload that ended with failedChunks > 0.
C32_LatestManifestChunksExist ==
  \A bt \in {"production", "staging"} :
    LatestKey(bt) \in DOMAIN store =>
      \A k \in 1..Len(getAllChunks(store[LatestKey(bt)].manifest)) :
        getAllChunks(store[LatestKey(bt)].manifest)[k].url \in DOMAIN store

(***************************************************************************)
(* Several upload-to-r2 invocations.                                       *)
(***************************************************************************)

InFlightSessions == {n \in 1..Len(sessions) : sessions[n].state = "inflight"}

\* Every in-flight session is the one currentUploadManager refers to.
InFlightSessionsReferenced ==
  \A n \in InFlightSessions : currentUploadManager = n

\* C33 as stated: for any interleaving of the handlers, a second
\* upload-to-r2 starting or finishing meanwhile included, no in-flight
\* session is left without a reference in currentUploadManager, so no
\* paused session is out of reach of resume-upload.
C33_InFlightSessionIsReferenced == InFlightSessionsReferenced

\* C33: as long as no upload-to-r2 began while another was in flight,
\* the in-flight session is the one currentUploadManager refers to, and
\* pause-upload and resume-upload reach it.
C33_InFlightSessionIsReferencedWhenAlone ==
  (\A n \in 1..Len(sessions) : sessions[n].alone) =>
    InFlightSessionsReferenced

\* A second invocation that began after the first was done is paused and
\* referenced.
C33_Witness ==
  /\ Len(sessions) = 2
  /\ sessions[1].state = "done"
  /\ sessions[2].state = "inflight"
  /\ sessions[2].alone
  /\ sessions[2].isPaused
  /\ currentUploadManager = 2

(***************************************************************************)
(* listVersions.                                                           *)
(***************************************************************************)

\* C34: listVersions terminates for every remote listing, a listing whose
\* response is truncated and carries a NextContinuationToken included:
\* a call that began returns the version list or fails.
C34_ListVersionsTerminates ==
  (listing.pc = "request") ~> (listing.pc \in {"returned", "failed"})

\* The same for listings of a single page.
C34_SinglePageTerminates ==
  (listing.pc = "request" /\ Len(listing.pages) = 1)
    ~> (listing.pc \in {"returned", "failed"})

(***************************************************************************)
(* The delta as a set difference (DeltaSpec).                              *)
(***************************************************************************)

\* The files of new that detectDelta put in neither list: unchanged.
UnchangedFiles ==
  {f \in FileSet(deltaNew.files) :
     f \notin FileSet(delta.newFiles) \cup FileSet(delta.changedFiles)}

\* C35: the chunksToUpload that detectDelta returns for two chunk-based
\* manifests with unique filenames is exactly hashes(new) \ hashes(old):
\* no hash of old is in it, and no hash that new introduces is left out
\* because its file was classified as unchanged.
C35_ChunksToUploadIsSetDifference ==
  delta.error = "ok" =>
    /\ delta.chunksToUpload
         = HashesOfFiles(deltaNew.files) \ HashesOfFiles(deltaOld.files)
    /\ HashesOfFiles([k \in 1..Len(delta.chunksToUploadDetails) |->
                        [chunks |-> <<delta.chunksToUploadDetails[k]>>]])
         = delta.chunksToUpload

\* An unchanged file with chunks next to a new file that reuses a hash of
\* old and introduces one.
C35_Witness ==
  /\ delta.error = "ok"
  /\ \E f \in UnchangedFiles : Len(f.chunks) > 0
  /\ \E f \in FileSet(delta.newFiles) :
       /\ HashesOfFiles(<<f>>) \cap HashesOfFiles(deltaOld.files) # {}
       /\ HashesOfFiles(<<f>>) \ HashesOfFiles(deltaOld.files) # {}
  /\ delta.chunksToUpload # {}

(***************************************************************************)
(* The keys promoteVersion verifies and the urls it publishes.             *)
(***************************************************************************)

\* The urls promoter p writes into the latest manifest, in chunk order.
PublishedUrls(p) ==
  LET m == PromoteWrites(promo[p].buildType, promo[p].version,
                         promo[p].manifest)[1][2].manifest
  IN [k \in 1..Len(getAllChunks(m)) |-> getAllChunks(m)[k].url]

\* C36: promoteVersion checks for existence exactly the keys it then
\* publishes: for every chunk of a promotion that wrote the latest
\* manifest, the key the verification tested is the url written for that
\* chunk, for a fetched and for a local manifest, also when the
\* manifest's version field differs from the version argument.
C36_VerifiedKeysArePublishedUrls ==
  \A p \in Promoters :
    promo[p].pc = "done" => promo[p].existingChunks = PublishedUrls(p)

\* The same for the promotions whose manifest carries the version
\* promoted.
C36_VerifiedKeysArePublishedUrlsSameVersion ==
  \A p \in Promoters :
    (promo[p].pc = "done" /\ promo[p].manifest.version = promo[p].version)
      => promo[p].existingChunks = PublishedUrls(p)

(***************************************************************************)
(* Locality of the boundaries (ChunkSpec).                                 *)
(***************************************************************************)

\* Chunking x ends on a declared boundary: its last chunk was pushed by
\* the loop, nothing remained after it.
EndsOnBoundary(cfg, x) ==
  /\ x # <<>>
  /\ ChunkScan(cfg, x, 0, 0, 0, <<>>).chunkStart = Len(x)

\* The chunks with their offsets moved by n.
Shifted(chunks, n) ==
  [k \in 1..Len(chunks) |-> [chunks[k] EXCEPT !.offset = @ + n]]

\* C38: chunk boundaries depend only on the bytes since the previous
\* boundary: whenever the bytes chunked are X followed by Y and chunking
\* X ends exactly on a declared boundary, the chunks are those of X
\* followed by those of Y with offsets shifted by the length of X.
C38_BoundariesAreLocal ==
  \A call \in ChunkerCalls :
    \A n \in 1..Len(call.input) :
      LET x == SubSeq(call.input, 1, n)
          y == SubSeq(call.input, n + 1, Len(call.input))
      IN EndsOnBoundary(fastCDC.config, x) =>
           call.chunks
             = chunkBuffer(fastCDC.config, x, 0)
                 \o Shifted(chunkBuffer(fastCDC.config, y, 0), n)

\* A prefix of two bytes ends on a boundary the hash declared (before
\* maxSize), and the rest is cut into a chunk and a remainder.
C38_Witness ==
  /\ fastCDC.lastCall.made
  /\ fastCDC.config.minSize < fastCDC.config.maxSize
  /\ Len(fastCDC.lastCall.input) = 4
  /\ EndsOnBoundary(fastCDC.config, SubSeq(fastCDC.lastCall.input, 1, 2))
  /\ Len(chunkBuffer(fastCDC.config, SubSeq(fastCDC.lastCall.input, 1, 2), 0)) = 1
  /\ 2 < fastCDC.config.maxSize
  /\ Len(fastCDC.lastCall.chunks) >= 2

(***************************************************************************)
(* The manifest and the local chunk store (PackSpec).                      *)
(***************************************************************************)

\* C39: when generateManifest returns success, every chunk hash of the
\* manifest it wrote has its file in the local chunk store, also when a
\* storeChunk call failed during the pass.
C39_ManifestChunksAreStored ==
  pack.result = "success" =>
    \A h \in HashesOfFiles(pack.manifest.files) :
      getChunkPath(h) \in DOMAIN chunkCache

\* The same for the passes in which no storeChunk call returned false.
C39_ManifestChunksAreStoredWhenNoStoreFailed ==
  (pack.result = "success" /\ pack.notStored = {}) =>
    \A h \in HashesOfFiles(pack.manifest.files) :
      getChunkPath(h) \in DOMAIN chunkCache

(***************************************************************************)
(* The mask and the rolling hash (MaskSpec).                               *)
(***************************************************************************)

RECURSIVE IsPowerOfTwo(_)
IsPowerOfTwo(n) ==
  IF n < 1 THEN FALSE
  ELSE IF n = 1 THEN TRUE
  ELSE n % 2 = 0 /\ IsPowerOfTwo(n \div 2)

\* The mask is 2^bits - 1: non-negative, with exactly the `bits' low bits
\* set, that is mask + 1 is the power of two 2^bits.
MaskHasLowBits(maskPlusOne, bits) ==
  /\ maskPlusOne >= 1
  /\ IsPowerOfTwo(maskPlusOne)
  /\ Log2Floor(maskPlusOne) = bits

\* The rolling hash stays within the width kept by updateHash.
HashWithinWidth == fastCDC.hash \in 0..(HashModulus - 1)

\* C40: for every avgSize >= 1, calculateMask returns
\* 2^floor(log2(avgSize)) - 1, a non-negative value with exactly
\* floor(log2(avgSize)) low bits set, for avgSize >= 2^31 as well; and
\* updateHash keeps the rolling hash within its width.
C40_MaskAndHashWidth ==
  /\ MaskHasLowBits(fastCDC.maskPlusOne, Log2FloorOf(fastCDC.avgSize))
  /\ HashWithinWidth

\* The same for avgSize below 2^31.
C40_MaskAndHashWidthBelow31Bits ==
  /\ Log2FloorOf(fastCDC.avgSize) <= 30 =>
       MaskHasLowBits(fastCDC.maskPlusOne, Log2FloorOf(fastCDC.avgSize))
  /\ HashWithinWidth

=============================================================================
